---- MODULE Spec2Model ----
(***************************************************************************)
(* Lightning strike effects of overview-client: the per-effect animation   *)
(* clock and resource lifecycle (LightningBoltEffect, PointMarkerEffect,   *)
(* BaseEffect) and the bounded registry that admits and evicts them        *)
(* (LightningLayer).                                                       *)
(*                                                                         *)
(* Time is in milliseconds.  Date.now() and performance.now() are read     *)
(* off one machine clock; the code only ever uses differences of           *)
(* performance.now() readings.  Fractions (speed, opacity) are exact       *)
(* rationals [num, den].                                                   *)
(***************************************************************************)
EXTENDS Integers, Sequences, FiniteSets, TLC

VARIABLES
    clock,                 \* the machine clock (Date.now(), performance.now())
    ticks,                 \* how many times the clock has advanced
    heap,                  \* the effect objects the program still references
    ended,                 \* the effect objects the latest operation released
    lightningBoltEffects,  \* LightningLayer.lightningBoltEffects: Map in insertion order
    markerEffects,         \* LightningLayer.markerEffects: Map in insertion order
    activeEffects,         \* LightningLayer.activeEffects
    visible,               \* BaseLayer.visible
    ready,                 \* BaseLayer.scene and BaseLayer.globeEl are set
    subscribed,            \* LightningLayer.unsubscribe is set
    config,                \* the configuration values the layer reads with getConfig
    manager,               \* the fields of a LightningManager
    dataStream,            \* the subscriber sets of the strike data stream
    generated,             \* the paths and branches of two bolts of one configuration
    showcase,              \* the showcase: the controller's refs and the ground's flashData
    log                    \* observation: what the operations so far were

vars == <<clock, ticks, heap, ended, lightningBoltEffects, markerEffects, activeEffects,
          visible, ready, subscribed, config, manager, dataStream, generated,
          showcase, log>>

layerVars == <<lightningBoltEffects, markerEffects, activeEffects,
               visible, ready, subscribed, config>>

(***************************************************************************)
(* Bounds of the model.                                                    *)
(***************************************************************************)
NumIds == 3            \* strike ids 1..NumIds
MaxAdmissions == 3     \* admissions the log of a scenario records
MaxTicks == 2          \* clock advances in one behaviour
BranchBound == 1       \* branches one createBranches call may emit
MaxAllocated == 11     \* resources one effect allocates when driven on its own
CapActive == 1         \* the configured maxActiveAnimations
CapDisplayed == 2       \* the configured maxDisplayedStrikes

(***************************************************************************)
(* Program constants.                                                      *)
(***************************************************************************)
DefaultMaxActiveAnimations == 10
DefaultMaxDisplayedStrikes == 256
LayerBoltDuration == 1000
DefaultBoltDuration == 1500
MarkerFadeInDuration == 1500
MarkerMaxAge == 60000
MarkerFadeStartAge == 10000

(***************************************************************************)
(* Exact fractions.                                                        *)
(***************************************************************************)
Frac(n, d) == [num |-> n, den |-> d]
Zero == Frac(0, 1)
One == Frac(1, 1)
FracEq(a, b) == a.num * b.den = b.num * a.den
FracLt(a, b) == a.num * b.den < b.num * a.den
FracLe(a, b) == a.num * b.den <= b.num * a.den
\* a value of [0,1]; a fraction with denominator 0 is an infinity
InUnit(a) == a.den > 0 /\ 0 <= a.num /\ a.num <= a.den
FracMin(a, b) == IF FracLe(a, b) THEN a ELSE b
FracMax(a, b) == IF FracLe(a, b) THEN b ELSE a

Range(f) == {f[i] : i \in DOMAIN f}

(***************************************************************************)
(* Effect objects.  allocated lists every geometry, material and Object3D  *)
(* the effect has created, with the number of dispose() calls each has     *)
(* received; resources lists (by index into allocated) the ones handed to  *)
(* registerResource.  samples is an observation: the last two update       *)
(* calls made on the effect and what they returned.                        *)
(***************************************************************************)
Resource(t) == [type |-> t, disposed |-> 0]

BoltConfig(speed, duration) == [speed |-> speed, duration |-> duration]

NewLightningBoltEffect(id, cfg, now) ==
    [kind |-> "bolt", id |-> id, isTerminated |-> FALSE,
     opacity |-> Zero,                  \* material.opacity
     createTime |-> now,                \* Date.now()
     startTime |-> now,                 \* performance.now()
     speed |-> cfg.speed, duration |-> cfg.duration,
     startAltitude |-> 0, animationPhase |-> 0,
     globeEl |-> FALSE, inScene |-> FALSE,
     allocated |-> <<Resource("geometry"), Resource("material"),
                     Resource("object3d"), Resource("object3d")>>,
     resources |-> <<1, 2, 3, 4>>,
     geometry |-> 1, material |-> 2, branches |-> <<>>,
     samples |-> <<>>]

MarkerConfig(opacity, fadeInDuration) ==
    [opacity |-> opacity, fadeInDuration |-> fadeInDuration,
     maxAge |-> MarkerMaxAge, fadeStartAge |-> MarkerFadeStartAge]

NewPointMarkerEffect(id, cfg, now) ==
    [kind |-> "marker", id |-> id, isTerminated |-> FALSE,
     opacity |-> Zero,
     createTime |-> now,
     maxOpacity |-> cfg.opacity, fadeInDuration |-> cfg.fadeInDuration,
     maxAge |-> cfg.maxAge, fadeStartAge |-> cfg.fadeStartAge,
     globeEl |-> FALSE, inScene |-> FALSE,
     allocated |-> <<Resource("geometry"), Resource("material"), Resource("object3d")>>,
     resources |-> <<1, 2, 3>>,
     geometry |-> 1, material |-> 2, branches |-> <<>>,
     samples |-> <<>>]

\* registerResource, for the nb branches one createBranches call emits:
\* a geometry, a cloned material and a Line each
CreateBranches(o, nb) ==
    LET base == Len(o.allocated)
        new == [k \in 1..(3 * nb) |->
                   Resource(IF k % 3 = 1 THEN "geometry"
                            ELSE IF k % 3 = 2 THEN "material" ELSE "object3d")]
    IN  [o EXCEPT !.allocated = @ \o new,
                  !.resources = @ \o [k \in 1..(3 * nb) |-> base + k],
                  !.branches = [j \in 1..nb |->
                                   [geometry |-> base + 3 * (j - 1) + 1,
                                    material |-> base + 3 * (j - 1) + 2,
                                    opacity |-> o.opacity]]]

\* the rebuild of the main line and the branches shared by positionOnGlobe
\* and updateStartAltitude
RebuildGeometry(o, nb) ==
    LET n == Len(o.allocated)
        old == {o.branches[j].geometry : j \in DOMAIN o.branches}
                 \cup {o.branches[j].material : j \in DOMAIN o.branches}
        a1 == o.allocated \o <<Resource("geometry"), Resource("object3d")>>
        a2 == [k \in DOMAIN a1 |->
                 IF k \in old THEN [a1[k] EXCEPT !.disposed = @ + 1] ELSE a1[k]]
    IN  CreateBranches([o EXCEPT !.allocated = a2, !.geometry = n + 1,
                                 !.branches = <<>>], nb)

BoltInitialize(o, nb) ==
    LET n == Len(o.allocated)
        o1 == [o EXCEPT !.globeEl = TRUE, !.inScene = TRUE,
                        !.allocated = @ \o <<Resource("geometry"), Resource("object3d")>>,
                        !.geometry = n + 1]
    IN  CreateBranches(o1, nb)

MarkerInitialize(o) == [o EXCEPT !.globeEl = TRUE, !.inScene = TRUE]

PositionOnGlobe(o, nb) ==
    IF ~o.globeEl THEN o
    ELSE IF o.kind = "bolt" /\ o.inScene THEN RebuildGeometry(o, nb)
    ELSE o

UpdateStartAltitude(o, altitude, nb) ==
    IF o.startAltitude = altitude THEN o
    ELSE LET o1 == [o EXCEPT !.startAltitude = altitude]
         IN  IF o1.inScene THEN RebuildGeometry(o1, nb) ELSE o1

\* updateSpeed restarting the animation at the moment of the change
UpdateSpeedRestarting(o, speed) == [o EXCEPT !.speed = speed, !.startTime = clock]

UpdateSpeed(o, speed) == [o EXCEPT !.speed = speed]

Occurrences(s, x) == Cardinality({i \in DOMAIN s : s[i] = x})

\* dispose leaving the list of registered resources as it is
DisposeKeepingResources(o) ==
    [o EXCEPT !.branches = <<>>,
              !.allocated = [k \in DOMAIN @ |->
                  IF @[k].type \in {"geometry", "material"}
                  THEN [@[k] EXCEPT !.disposed = @ + Occurrences(o.resources, k)]
                  ELSE @[k]]]

Dispose(o) ==
    [o EXCEPT !.branches = <<>>,
              !.allocated = [k \in DOMAIN @ |->
                  IF @[k].type \in {"geometry", "material"}
                  THEN [@[k] EXCEPT !.disposed = @ + Occurrences(o.resources, k)]
                  ELSE @[k]],
              !.resources = <<>>]

BaseTerminateImmediately(o) ==
    IF o.isTerminated THEN o
    ELSE Dispose([o EXCEPT !.isTerminated = TRUE, !.inScene = FALSE])

TerminateImmediately(o) ==
    BaseTerminateImmediately(
        [o EXCEPT !.opacity = Zero,
                  !.branches = [j \in DOMAIN @ |-> [@[j] EXCEPT !.opacity = Zero]]])

SetOpacity(o, a) ==
    [o EXCEPT !.opacity = a,
              !.branches = [j \in DOMAIN @ |-> [@[j] EXCEPT !.opacity = a]]]

\* a speed factor that disregards the configured speed
SpeedFactorDefault(o) == One

SpeedFactor(o) == IF o.speed.num = 0 THEN One ELSE o.speed

\* update with two phases of half the duration each and no hold
BoltUpdateHalves(o, currentTime, perfNow) ==
    IF o.isTerminated THEN [effect |-> o, alive |-> FALSE]
    ELSE
    LET elapsed == perfNow - o.startTime
        s == SpeedFactor(o)
        x == elapsed * s.num
        D == o.duration * s.den
    IN  IF x > D
        THEN [effect |-> TerminateImmediately(o), alive |-> FALSE]
        ELSE IF 2 * x < D
        THEN [effect |-> SetOpacity([o EXCEPT !.animationPhase = 1], Frac(2 * x, D)),
              alive |-> TRUE]
        ELSE [effect |-> SetOpacity([o EXCEPT !.animationPhase = 3],
                                    FracMax(Zero, Frac(2 * D - 2 * x, D))),
              alive |-> TRUE]

\* update holding full opacity through the last third
BoltUpdateHeld(o, currentTime, perfNow) ==
    IF o.isTerminated THEN [effect |-> o, alive |-> FALSE]
    ELSE
    LET elapsed == perfNow - o.startTime
        s == SpeedFactor(o)
        x == elapsed * s.num
        D == o.duration * s.den
    IN  IF x > D
        THEN [effect |-> TerminateImmediately(o), alive |-> FALSE]
        ELSE IF 3 * x < D
        THEN [effect |-> SetOpacity([o EXCEPT !.animationPhase = 1], Frac(3 * x, D)),
              alive |-> TRUE]
        ELSE IF 3 * x < 2 * D
        THEN [effect |-> SetOpacity([o EXCEPT !.animationPhase = 2], One),
              alive |-> TRUE]
        ELSE [effect |-> SetOpacity([o EXCEPT !.animationPhase = 3], One),
              alive |-> TRUE]

\* LightningBoltEffect.update: [effect, alive]; perfNow is performance.now(),
\* the currentTime argument is not read
BoltUpdate(o, currentTime, perfNow) ==
    IF o.isTerminated THEN [effect |-> o, alive |-> FALSE]
    ELSE
    LET elapsed == perfNow - o.startTime
        s == SpeedFactor(o)
        x == elapsed * s.num         \* scaledTime = x / s.den
        D == o.duration * s.den      \* totalDuration, on the same scale
    IN  IF x > D
        THEN [effect |-> TerminateImmediately(o), alive |-> FALSE]
        ELSE IF 3 * x < D
        THEN [effect |-> SetOpacity([o EXCEPT !.animationPhase = 1], Frac(3 * x, D)),
              alive |-> TRUE]
        ELSE IF 3 * x < 2 * D
        THEN [effect |-> SetOpacity([o EXCEPT !.animationPhase = 2], One),
              alive |-> TRUE]
        ELSE [effect |-> SetOpacity([o EXCEPT !.animationPhase = 3],
                                    FracMax(Zero, Frac(3 * D - 3 * x, D))),
              alive |-> TRUE]

\* update of a marker without the test of isTerminated
MarkerUpdateUnguarded(o, currentTime) ==
    LET age == currentTime - o.createTime
        op == o.maxOpacity
    IN  IF age > o.maxAge
        THEN [effect |-> TerminateImmediately(o), alive |-> FALSE]
        ELSE IF age < o.fadeInDuration
        THEN [effect |-> [o EXCEPT !.opacity =
                  FracMin(op, Frac(age * op.num, o.fadeInDuration * op.den))],
              alive |-> TRUE]
        ELSE IF age < o.fadeStartAge
        THEN [effect |-> [o EXCEPT !.opacity = op], alive |-> TRUE]
        ELSE [effect |-> [o EXCEPT !.opacity =
                  FracMax(Zero, FracMin(op,
                      Frac((o.maxAge - age) * op.num,
                           (o.maxAge - o.fadeStartAge) * op.den)))],
              alive |-> TRUE]

\* update of a marker that holds the maximum opacity through the fade-out stage
MarkerUpdateHeld(o, currentTime) ==
    IF o.isTerminated THEN [effect |-> o, alive |-> FALSE]
    ELSE
    LET age == currentTime - o.createTime
        op == o.maxOpacity
    IN  IF age > o.maxAge
        THEN [effect |-> TerminateImmediately(o), alive |-> FALSE]
        ELSE IF age < o.fadeInDuration
        THEN [effect |-> [o EXCEPT !.opacity =
                  FracMin(op, Frac(age * op.num, o.fadeInDuration * op.den))],
              alive |-> TRUE]
        ELSE [effect |-> [o EXCEPT !.opacity = op], alive |-> TRUE]

\* PointMarkerEffect.update
MarkerUpdate(o, currentTime) ==
    IF o.isTerminated THEN [effect |-> o, alive |-> FALSE]
    ELSE
    LET age == currentTime - o.createTime
        op == o.maxOpacity
    IN  IF age > o.maxAge
        THEN [effect |-> TerminateImmediately(o), alive |-> FALSE]
        ELSE IF age < o.fadeInDuration
        THEN [effect |-> [o EXCEPT !.opacity =
                  FracMin(op, Frac(age * op.num, o.fadeInDuration * op.den))],
              alive |-> TRUE]
        ELSE IF age < o.fadeStartAge
        THEN [effect |-> [o EXCEPT !.opacity = op], alive |-> TRUE]
        ELSE [effect |-> [o EXCEPT !.opacity =
                  FracMax(Zero, FracMin(op,
                      Frac((o.maxAge - age) * op.num,
                           (o.maxAge - o.fadeStartAge) * op.den)))],
              alive |-> TRUE]

Update(o, currentTime, perfNow) ==
    IF o.kind = "bolt" THEN BoltUpdate(o, currentTime, perfNow)
    ELSE MarkerUpdate(o, currentTime)

\* observation of one update call: when it was made, with what argument, the
\* speed then in force, and what it returned and left as opacity
Sample(o, r, currentTime, perfNow) ==
    [at |-> perfNow, arg |-> currentTime, stale |-> o.isTerminated,
     speed |-> IF o.kind = "bolt" THEN SpeedFactor(o) ELSE One,
     alive |-> r.alive, alpha |-> r.effect.opacity,
     phase |-> IF ~r.alive THEN 4
               ELSE IF o.kind = "bolt" THEN r.effect.animationPhase ELSE 0]

Observed(o, r, currentTime, perfNow) ==
    [r.effect EXCEPT !.samples =
        (IF @ = <<>> THEN <<>> ELSE <<@[Len(@)]>>)
            \o <<Sample(o, r, currentTime, perfNow)>>]

(***************************************************************************)
(* JavaScript Map (in insertion order) and Array helpers.                  *)
(***************************************************************************)
MapHas(m, id) == \E i \in DOMAIN m : m[i].id = id
MapGet(m, id) == m[CHOOSE i \in DOMAIN m : m[i].id = id].ref
MapDelete(m, id) == SelectSeq(m, LAMBDA e : e.id # id)
MapSet(m, id, ref) ==
    IF MapHas(m, id)
    THEN [i \in DOMAIN m |-> IF m[i].id = id THEN [id |-> id, ref |-> ref] ELSE m[i]]
    ELSE Append(m, [id |-> id, ref |-> ref])
MapKeys(m) == {m[i].id : i \in DOMAIN m}

Min2(a, b) == IF a < b THEN a ELSE b
Max2(a, b) == IF a < b THEN b ELSE a
\* Array.prototype.slice(k) and slice(0, k)
SliceFrom(s, k) ==
    LET n == Len(s)
        st == IF k < 0 THEN Max2(n + k, 0) ELSE Min2(k, n)
    IN  SubSeq(s, st + 1, n)
SliceTo(s, k) ==
    LET n == Len(s)
        en == IF k < 0 THEN Max2(n + k, 0) ELSE Min2(k, n)
    IN  SubSeq(s, 1, en)

\* Array.prototype.sort is stable.  key[i] is the sort key of s[i]; the result
\* is in ascending key order, equal keys keeping their order in s.
StableSortByKey(s, key) ==
    LET rank(i) == Cardinality({j \in DOMAIN s :
                       key[j] < key[i] \/ (key[j] = key[i] /\ j < i)}) + 1
    IN  [p \in DOMAIN s |-> s[CHOOSE i \in DOMAIN s : rank(i) = p]]

\* getConfig(path) || fallback
OrDefault(v, fallback) == IF v = 0 THEN fallback ELSE v

(***************************************************************************)
(* LightningLayer.  The private steps are operators on the layer's         *)
(* collections L = [heap, bolts, markers, active].                         *)
(***************************************************************************)
Layer == [heap |-> heap, bolts |-> lightningBoltEffects,
          markers |-> markerEffects, active |-> activeEffects]

Terminated(L, ref) == [L EXCEPT !.heap[ref] = TerminateImmediately(@)]

RECURSIVE RemoveBolts(_, _)
RemoveBolts(L, ids) ==
    IF ids = <<>> THEN L
    ELSE LET id == Head(ids)
             L1 == IF MapHas(L.bolts, id)
                   THEN [Terminated(L, MapGet(L.bolts, id))
                            EXCEPT !.bolts = MapDelete(@, id)]
                   ELSE L
         IN  RemoveBolts(L1, Tail(ids))

\* ensureMaxActiveEffects without the trimming of the records past the cap
ensureMaxActiveEffectsUntrimmed(L) ==
    [L EXCEPT !.active = StableSortByKey(L.active,
                  [i \in DOMAIN L.active |-> 0 - L.active[i].timestamp])]

\* ensureMaxActiveEffects sorting the records oldest first
ensureMaxActiveEffectsOldestFirst(L) ==
    LET sorted == StableSortByKey(L.active, [i \in DOMAIN L.active |-> L.active[i].timestamp])
        maxActiveAnimations ==
            OrDefault(config.maxActiveAnimations, DefaultMaxActiveAnimations)
        L1 == [L EXCEPT !.active = sorted]
    IN  IF Len(sorted) > maxActiveAnimations
        THEN LET tail == SliceFrom(sorted, maxActiveAnimations)
                 removeIds == [i \in DOMAIN tail |-> tail[i].id]
             IN  [RemoveBolts(L1, removeIds)
                     EXCEPT !.active = SliceTo(sorted, maxActiveAnimations)]
        ELSE L1

ensureMaxActiveEffects(L) ==
    LET sorted == StableSortByKey(L.active, [i \in DOMAIN L.active |-> 0 - L.active[i].timestamp])
        maxActiveAnimations ==
            OrDefault(config.maxActiveAnimations, DefaultMaxActiveAnimations)
        L1 == [L EXCEPT !.active = sorted]
    IN  IF Len(sorted) > maxActiveAnimations
        THEN LET tail == SliceFrom(sorted, maxActiveAnimations)
                 removeIds == [i \in DOMAIN tail |-> tail[i].id]
             IN  [RemoveBolts(L1, removeIds)
                     EXCEPT !.active = SliceTo(sorted, maxActiveAnimations)]
        ELSE L1

createLightningBoltEffect(L, id, nb1, nb2) ==
    IF ~ready THEN L
    ELSE
    LET L1 == IF MapHas(L.bolts, id)
              THEN [Terminated(L, MapGet(L.bolts, id))
                       EXCEPT !.bolts = MapDelete(@, id)]
              ELSE L
        effect == PositionOnGlobe(
                      BoltInitialize(
                          NewLightningBoltEffect(id,
                              BoltConfig(One, LayerBoltDuration), clock),
                          nb1),
                      nb2)
        ref == Len(L1.heap) + 1
        L2 == [L1 EXCEPT !.heap = Append(@, effect),
                         !.bolts = MapSet(@, id, ref),
                         !.active = Append(@, [id |-> id, timestamp |-> clock])]
    IN  ensureMaxActiveEffects(L2)

\* createMarkerEffect without the termination of the marker the id already has
createMarkerEffectUnreplaced(L, id) ==
    IF ~ready THEN L
    ELSE
    LET cfg == MarkerConfig(One,
                   IF config.showLightningBolt THEN MarkerFadeInDuration ELSE 0)
        effect == PositionOnGlobe(
                      MarkerInitialize(NewPointMarkerEffect(id, cfg, clock)), 0)
        ref == Len(L.heap) + 1
    IN  [L EXCEPT !.heap = Append(@, effect),
                  !.markers = MapSet(@, id, ref)]

\* createMarkerEffect giving every marker the fade-in of 1500 ms
createMarkerEffectFading(L, id) ==
    IF ~ready THEN L
    ELSE
    LET L1 == IF MapHas(L.markers, id)
              THEN [Terminated(L, MapGet(L.markers, id))
                       EXCEPT !.markers = MapDelete(@, id)]
              ELSE L
        cfg == MarkerConfig(One, MarkerFadeInDuration)
        effect == PositionOnGlobe(
                      MarkerInitialize(NewPointMarkerEffect(id, cfg, clock)), 0)
        ref == Len(L1.heap) + 1
    IN  [L1 EXCEPT !.heap = Append(@, effect),
                   !.markers = MapSet(@, id, ref)]

createMarkerEffect(L, id) ==
    IF ~ready THEN L
    ELSE
    LET L1 == IF MapHas(L.markers, id)
              THEN [Terminated(L, MapGet(L.markers, id))
                       EXCEPT !.markers = MapDelete(@, id)]
              ELSE L
        cfg == MarkerConfig(One,
                   IF config.showLightningBolt THEN MarkerFadeInDuration ELSE 0)
        effect == PositionOnGlobe(
                      MarkerInitialize(NewPointMarkerEffect(id, cfg, clock)), 0)
        ref == Len(L1.heap) + 1
    IN  [L1 EXCEPT !.heap = Append(@, effect),
                   !.markers = MapSet(@, id, ref)]

RECURSIVE RemoveMarkers(_, _)
RemoveMarkers(L, entries) ==
    IF entries = <<>> THEN L
    ELSE LET id == Head(entries).id
             L1 == [Terminated(L, Head(entries).ref)
                       EXCEPT !.markers = MapDelete(@, id)]
             L2 == IF MapHas(L1.bolts, id)
                   THEN [Terminated(L1, MapGet(L1.bolts, id))
                            EXCEPT !.bolts = MapDelete(@, id),
                                   !.active = SelectSeq(@, LAMBDA e : e.id # id)]
                   ELSE L1
         IN  RemoveMarkers(L2, Tail(entries))

\* enforceMaxDisplayedStrikes sorting the markers newest first
enforceMaxDisplayedStrikesNewestFirst(L) ==
    LET maxDisplayedStrikes ==
            OrDefault(config.maxDisplayedStrikes, DefaultMaxDisplayedStrikes)
    IN  IF Len(L.markers) <= maxDisplayedStrikes THEN L
        ELSE
        LET markers == StableSortByKey(L.markers,
                [i \in DOMAIN L.markers |-> 0 - L.heap[L.markers[i].ref].createTime])
            removeCount == Len(markers) - maxDisplayedStrikes
        IN  IF removeCount <= 0 THEN L
            ELSE RemoveMarkers(L, SliceTo(markers, removeCount))

enforceMaxDisplayedStrikes(L) ==
    LET maxDisplayedStrikes ==
            OrDefault(config.maxDisplayedStrikes, DefaultMaxDisplayedStrikes)
    IN  IF Len(L.markers) <= maxDisplayedStrikes THEN L
        ELSE
        LET markers == StableSortByKey(L.markers,
                [i \in DOMAIN L.markers |-> L.heap[L.markers[i].ref].createTime])
            removeCount == Len(markers) - maxDisplayedStrikes
        IN  IF removeCount <= 0 THEN L
            ELSE RemoveMarkers(L, SliceTo(markers, removeCount))

addData(L, id, nb1, nb2) ==
    LET L1 == IF config.showLightningBolt
              THEN createLightningBoltEffect(L, id, nb1, nb2)
              ELSE L
    IN  enforceMaxDisplayedStrikes(createMarkerEffect(L1, id))

clearLightningBoltEffects(L) ==
    [L EXCEPT !.heap = [r \in DOMAIN @ |->
                          IF r \in {L.bolts[i].ref : i \in DOMAIN L.bolts}
                          THEN TerminateImmediately(@[r]) ELSE @[r]],
              !.bolts = <<>>,
              !.active = <<>>]

\* the two forEach loops of update: every tracked effect is updated, the ones
\* reporting not-alive are collected and deleted afterwards
RECURSIVE UpdateBolts(_, _, _)
UpdateBolts(L, entries, currentTime) ==
    IF entries = <<>> THEN L
    ELSE LET e == Head(entries)
             r == Update(L.heap[e.ref], currentTime, clock)
             L1 == [L EXCEPT !.heap[e.ref] = r.effect]
             L2 == IF r.alive THEN L1
                   ELSE [L1 EXCEPT !.active = SelectSeq(@, LAMBDA a : a.id # e.id),
                                   !.bolts = MapDelete(@, e.id)]
         IN  UpdateBolts(L2, Tail(entries), currentTime)

RECURSIVE UpdateMarkers(_, _, _)
UpdateMarkers(L, entries, currentTime) ==
    IF entries = <<>> THEN L
    ELSE LET e == Head(entries)
             r == Update(L.heap[e.ref], currentTime, clock)
             L1 == [L EXCEPT !.heap[e.ref] = r.effect]
             L2 == IF r.alive THEN L1
                   ELSE [L1 EXCEPT !.markers = MapDelete(@, e.id)]
         IN  UpdateMarkers(L2, Tail(entries), currentTime)

\* update, were it to run on a hidden layer too
updateWhileHidden(L, currentTime) ==
    LET L1 == UpdateBolts(L, L.bolts, currentTime)
    IN  UpdateMarkers(L1, L1.markers, currentTime)

update(L, currentTime) ==
    IF ~visible THEN L
    ELSE LET L1 == UpdateBolts(L, L.bolts, currentTime)
         IN  UpdateMarkers(L1, L1.markers, currentTime)

clear(L) ==
    [L EXCEPT !.heap = [r \in DOMAIN @ |->
                          IF r \in {L.bolts[i].ref : i \in DOMAIN L.bolts}
                                 \cup {L.markers[i].ref : i \in DOMAIN L.markers}
                          THEN TerminateImmediately(@[r]) ELSE @[r]],
              !.bolts = <<>>,
              !.markers = <<>>,
              !.active = <<>>]

(***************************************************************************)
(* The geometry of a bolt: the seeded generator, the main path and the     *)
(* branches.  Coordinates are in tenths of a scene unit.  A draw of the    *)
(* generator is known by the seed value it was computed from; Random gives *)
(* its value in ten-thousandths, floor(frac(sin(seed) * 10000) * 10000).   *)
(***************************************************************************)
RandomFrom1 ==
    <<
       7098, 9742, 2000, 9750, 7572, 8450, 8659, 5824, 1848, 7888,  979, 2708,
       6703,  735, 8784, 9668,  250, 1275, 7720, 4525, 5563, 4869, 7959, 2163,
       4824, 5845, 7592,  578, 6611, 6837, 6235, 2668, 1186, 8268, 1733, 2114,
       6186, 6857, 9538, 1316, 7733, 7845, 2525,  192,  352, 8834, 7312, 4533,
       4734, 2514, 2917, 2759, 2515, 1095, 4482, 4899, 6475, 7264, 3800, 8937,
       8222, 1930, 5570, 2603, 2867, 4884, 8002, 7231, 1518, 9068, 5465, 2336,
       2804, 5373, 1836,  763, 2015, 7845, 8733, 1134, 1200, 2878, 6446, 9032,
       2438, 4155, 8216, 9830, 6940, 9666, 8751, 3393, 1785, 4801, 6171, 8774,
        773, 1812, 9316, 3435, 2578, 2679, 8863, 7759, 6471, 5749, 8174, 1850,
       4260, 5732, 4855,  439, 1809, 8038, 3533, 6139,  205, 4783, 9589, 1118,
       1522, 1315, 9650, 1301, 5954, 9082, 3006, 3771, 2660, 9404, 9661, 8358,
       6575, 2481, 6868, 6679, 8554, 4774, 8013, 3965, 7136,  499, 5463, 7840,
       4516, 6917, 4402, 6660, 5135, 2357, 4988, 2052,   58, 7966, 8801, 1538,
       5145, 2409, 1973, 2525, 9221, 4964, 8982, 3277, 9727, 9156, 4981, 2671,
         13, 4945, 9086, 5914, 8946, 3802, 6540, 5223, 8978, 7533, 2216, 4736 >>

RandomFrom2500 ==
    <<
       7247,  538, 5553, 4789, 1416, 6866, 5995, 6231, 3281, 8883, 4259,  505,
       8573, 9733, 9171, 9905, 4461, 9730, 9096, 9638, 7334,  583, 7660, 2989,
       4837, 2758, 3100,  592, 5758, 8709, 8564,  286, 3627, 8972, 8920, 7122,
       1423,  682, 6862, 6402, 5048, 7095, 4537,  222, 2471, 1158, 7221, 3856,
       3626, 9129, 9002, 6208, 2921, 3478, 7519, 7569, 1057, 8074, 2728, 1000,
       8712, 1843, 8639,  256,  171, 1192, 2409, 7083, 8290, 5318, 8332, 3939,
       9759, 9081, 2296, 9790, 2231, 9823, 1513, 4741, 8422, 5034, 8748, 5473,
       9840, 8367, 8600, 5179, 7644, 2219, 8610, 9762, 1088,  227, 7916, 5348,
       5747, 9937, 7189, 8890, 3343, 4362, 5071, 1223,  817, 1702, 9506, 6975,
       9085,  654, 7422,  999, 2092,  851, 8041, 8343, 8009,  570, 2983, 7307,
       4150, 6244, 4392, 4680, 6838,  210, 2524, 6570, 3320, 3776, 6834, 1313 >>

RandomFrom5000 ==
    <<
       3356, 4843, 7869,  616, 2452, 3599, 6723, 8494, 7161,  782, 3163, 6066,
        973, 5960, 2387, 2514,  587, 5432, 7525, 7428, 3240, 4232, 5871, 3758,
       6101, 5425,  912, 4447, 2285, 1253, 8746, 7339,  360, 7175, 9132, 9123,
       2697, 6158, 5814, 3442, 5788, 2415, 1514, 1741, 2629,  739, 5547,  699,
       1639,  925, 6484, 3983, 2953, 6968,  327,  896, 7970, 2268, 2005, 8463,
        748, 6785, 6962, 5190, 5716, 6980, 1151, 1727, 7242, 1006, 9832,  219,
       6957, 5845, 7802, 6311, 4727, 9648, 7689, 9902, 3571, 3654, 9690, 3812,
       4176, 9775, 5134, 9653, 2773, 8776, 5473, 9459, 4731, 2180, 7394, 9202,
       8917, 2804, 4522, 1257, 3912, 4323,  500, 7452, 2899, 4830,  835, 2665,
       5866, 8306, 5609, 7812, 6362, 7899, 4609, 1812,  451,  924, 6950, 5701,
       1873, 6317, 7196, 5093, 5845, 8250, 1450, 7214, 7957, 7510, 1350, 9189 >>

Random(seed) ==
    IF seed \in 1..Len(RandomFrom1) THEN RandomFrom1[seed]
    ELSE IF seed - 2499 \in 1..Len(RandomFrom2500) THEN RandomFrom2500[seed - 2499]
    ELSE RandomFrom5000[seed - 4999]

BranchChance == 4000   \* branchChance 0.4 in ten-thousandths
GroundY == 0 - 18      \* the scene's ground, y = -1.8

NoGeometry == <<>>

Vector3(x, y, z) == [x |-> x, y |-> y, z |-> z]

\* the generator of createRandomGenerator(seed) is the seed it will use next
createRandomGenerator(seed) == seed

\* the points i..segments-1 of the zigzag; drawn holds the draws made so far
RECURSIVE Zigzag(_, _, _, _, _)
Zigzag(cloudPoint, surfacePoint, cfg, i, drawn) ==
    IF i >= cfg.lineSegments THEN <<>>
    ELSE LET n == cfg.lineSegments
             draws == drawn \o <<drawn[Len(drawn)] + 1, drawn[Len(drawn)] + 2>>
             pos == [x |-> Frac(cloudPoint.x * (n - i) + surfacePoint.x * i, n),
                     y |-> Frac(cloudPoint.y * (n - i) + surfacePoint.y * i, n),
                     z |-> Frac(cloudPoint.z * (n - i) + surfacePoint.z * i, n),
                     jitter |-> IF cfg.jitterAmount = 0 THEN <<>>
                                ELSE <<cfg.jitterAmount>> \o Tail(draws)]
         IN  <<pos>> \o Zigzag(cloudPoint, surfacePoint, cfg, i + 1, draws)

Exact(v) == [x |-> Frac(v.x, 1), y |-> Frac(v.y, 1), z |-> Frac(v.z, 1), jitter |-> <<>>]

\* the points of the path and the generator after it
createLightningStrikeGeometry(cloudPoint, surfacePoint, cfg, random) ==
    LET interior == Zigzag(cloudPoint, surfacePoint, cfg, 1, <<random - 1>>)
        groundPoint == Vector3(surfacePoint.x, GroundY, surfacePoint.z)
    IN  [points |-> <<Exact(cloudPoint)>> \o interior \o <<Exact(groundPoint)>>,
         random |-> random + 2 * Len(interior)]

\* floor(segments * 0.15)
SkipCount(segments) == (segments * 15) \div 100

\* the vertices the branches are rooted at and the generator after them
RECURSIVE BranchLoop(_, _, _, _)
BranchLoop(cfg, i, roots, random) ==
    IF ~(i < cfg.lineSegments - SkipCount(cfg.lineSegments)
           /\ Len(roots) < cfg.maxBranches)
    THEN [roots |-> roots, random |-> random]
    ELSE IF Random(random) < cfg.branchChance
    THEN LET subSegments == 1 + (Random(random + 3) * 2) \div 10000
         IN  BranchLoop(cfg, i + 1, Append(roots, i), random + 4 + 2 * subSegments)
    ELSE BranchLoop(cfg, i + 1, roots, random + 1)

createBranchesOf(cfg, random) ==
    BranchLoop(cfg, SkipCount(cfg.lineSegments), <<>>, random)

\* what initialize and positionOnGlobe do to the geometry of a bolt
Regenerate(b, cloudPoint, surfacePoint, cfg) ==
    LET g == createLightningStrikeGeometry(cloudPoint, surfacePoint, cfg, b.random)
        br == createBranchesOf(cfg, g.random)
    IN  [b EXCEPT !.points = g.points,
                  !.roots = br.roots,
                  !.random = br.random,
                  !.generations = @ + 1]

(***************************************************************************)
(* The strike data stream (useLightningData over useWebSocket).  A         *)
(* subscription adds the callback to the strike subscribers and a          *)
(* forwarding closure to the socket subscribers; every socket message is   *)
(* handed by every forwarding closure to every strike subscriber.  The     *)
(* unsubscribe closure removes the two entries its subscription added.     *)
(***************************************************************************)
NewDataStream == [subscribers |-> {}, socketSubscribers |-> {}]

subscribe(D, callback) ==
    [D EXCEPT !.subscribers = @ \cup {callback},
              !.socketSubscribers = @ \cup {callback}]

\* unsubscribe that removes the forwarding closure and leaves the callback
unsubscribeSocketOnly(D, callback) ==
    [D EXCEPT !.socketSubscribers = @ \ {callback}]

unsubscribe(D, callback) ==
    [D EXCEPT !.subscribers = @ \ {callback},
              !.socketSubscribers = @ \ {callback}]

\* how many times one socket message calls the callback
Deliveries(D, callback) ==
    IF callback \in D.subscribers THEN Cardinality(D.socketSubscribers) ELSE 0

(***************************************************************************)
(* LightningManager: the registry of the earlier effect classes.  An       *)
(* effect or marker object is known by its allocation number.              *)
(***************************************************************************)
EmptyId == 0           \* the id '' that createLightning returns when it does nothing

NewLightningManager ==
    [scene |-> FALSE, globeEl |-> FALSE,
     effects |-> <<>>, pointMarkers |-> <<>>, activeEffects |-> <<>>,
     objects |-> 0, calls |-> 0, returned |-> EmptyId]

managerInitialize(M, globeEl) ==
    [M EXCEPT !.globeEl = globeEl,
              !.scene = IF globeEl THEN TRUE ELSE @]

managerCreatePointMarker(M, id) ==
    IF ~M.scene \/ ~M.globeEl THEN M
    ELSE [M EXCEPT !.objects = @ + 1,
                   !.pointMarkers = MapSet(@, id, M.objects + 1)]

\* createLightning without the test of the scene and the globe
managerCreateLightningUnguarded(M, id, now) ==
    LET M1 == [M EXCEPT !.objects = @ + 1,
                        !.effects = MapSet(@, id, M.objects + 1),
                        !.activeEffects = Append(@, [id |-> id, timestamp |-> now])]
    IN  [managerCreatePointMarker(M1, id) EXCEPT !.returned = id, !.calls = M.calls + 1]

managerCreateLightning(M, id, now) ==
    IF ~M.scene \/ ~M.globeEl
    THEN [M EXCEPT !.returned = EmptyId, !.calls = @ + 1]
    ELSE
    LET M1 == [M EXCEPT !.objects = @ + 1,
                        !.effects = MapSet(@, id, M.objects + 1),
                        !.activeEffects = Append(@, [id |-> id, timestamp |-> now])]
    IN  [managerCreatePointMarker(M1, id) EXCEPT !.returned = id, !.calls = M.calls + 1]

(***************************************************************************)
(* The showcase: LightningController keeps one strike and broadcasts its   *)
(* start ('lightning-strike'); GroundPlane keeps flashData and computes    *)
(* the ground's flash from it on every frame.                              *)
(***************************************************************************)
FlashDuration == 1500  \* GroundPlane's totalDuration, 1.5 s

NewShowcase(speed) ==
    [speed |-> speed,                   \* the speed prop of both components
     currentSpeedRef |-> speed,
     startTimeRef |-> 0,
     strikes |-> 0,                     \* strikes created so far
     timeRef |-> 0,                     \* when the next strike is due
     strikePending |-> FALSE,
     timers |-> <<>>,                   \* when each pending createNewStrike timer is due
     dispatched |-> [count |-> 0, detail |-> [position |-> <<0, 0>>]],
                                        \* the 'lightning-strike' events dispatched so far
     flashData |-> [active |-> FALSE, intensity |-> Zero, speed |-> speed,
                    currentSpeed |-> speed, startTime |-> 0]]

\* LightningBoltEffect.setStartTime
setStartTime(o, startTime) == [o EXCEPT !.startTime = startTime]

\* event.detail.speed || speed
FracOrDefault(value, default) == IF value.num = 0 THEN default ELSE value

\* window.dispatchEvent(new CustomEvent('lightning-strike', {detail}))
dispatchEvent(S, detail) ==
    [S EXCEPT !.dispatched = [count |-> @.count + 1, detail |-> detail]]

\* the detail of the event createNewStrike dispatches
strikeDetail(S) ==
    [position |-> <<0, 0>>, speed |-> S.currentSpeedRef, startTime |-> S.startTimeRef]

\* handleLightning, were a flash in progress to keep its own start time
handleLightningKeeping(S, detail, now) ==
    LET strikeSpeed == FracOrDefault(detail.speed, S.speed)
    IN  [S EXCEPT !.flashData =
            [active |-> TRUE, intensity |-> Zero, speed |-> strikeSpeed,
             currentSpeed |-> strikeSpeed,
             startTime |-> IF S.flashData.active THEN S.flashData.startTime
                           ELSE OrDefault(detail.startTime, now)]]

handleLightning(S, detail, now) ==
    LET strikeSpeed == FracOrDefault(detail.speed, S.speed)
    IN  [S EXCEPT !.flashData =
            [active |-> TRUE, intensity |-> Zero, speed |-> strikeSpeed,
             currentSpeed |-> strikeSpeed,
             startTime |-> OrDefault(detail.startTime, now)]]

\* GroundPlane's useFrame
groundFrame(F, now) ==
    IF ~F.active THEN F
    ELSE
    LET elapsed == now - F.startTime
        x == elapsed * F.currentSpeed.num        \* scaledElapsed = x / den
        D == FlashDuration * F.currentSpeed.den  \* totalDuration, on the same scale
    IN  IF x <= D
        THEN IF 3 * x < D THEN [F EXCEPT !.intensity = Frac(3 * x, D)]
             ELSE IF 3 * x < 2 * D THEN [F EXCEPT !.intensity = One]
             ELSE [F EXCEPT !.intensity = FracMax(Zero, Frac(3 * D - 3 * x, D))]
        ELSE [F EXCEPT !.active = FALSE, !.intensity = Zero]

(***************************************************************************)
(* The layer's operations as actions.  update is driven by the render loop *)
(* with currentTime = Date.now().                                          *)
(*                                                                         *)
(* heap holds the effect objects the layer still references.  An operation *)
(* works on them and on the ones it creates; the objects it leaves         *)
(* unreferenced are handed to ended, which so shows, after every           *)
(* operation, the state in which that operation released them.             *)
(***************************************************************************)
Ids == 1..NumIds
Deltas == {400, 61000}
\* what the random trials of the two createBranches calls of one admission emit
BranchOutcomes == {<<0, 0>>, <<BranchBound, BranchBound>>}

Tracked(L) == {L.bolts[i].ref : i \in DOMAIN L.bolts}
                 \cup {L.markers[i].ref : i \in DOMAIN L.markers}

Install(L) ==
    LET tracked == Tracked(L)
        released == DOMAIN L.heap \ tracked
        idx(r) == Cardinality({q \in tracked : q <= r})
        pos(r) == Cardinality({q \in released : q <= r})
        renumber(m) == [i \in DOMAIN m |-> [id |-> m[i].id, ref |-> idx(m[i].ref)]]
    IN  /\ heap' = [k \in 1..Cardinality(tracked) |->
                       L.heap[CHOOSE r \in tracked : idx(r) = k]]
        /\ ended' = [k \in 1..Cardinality(released) |->
                       L.heap[CHOOSE r \in released : pos(r) = k]]
        /\ lightningBoltEffects' = renumber(L.bolts)
        /\ markerEffects' = renumber(L.markers)
        /\ activeEffects' = L.active

\* observation: the operation just made and, in admitted, the strikes admitted
\* so far with their timestamps, kept for as long as every admission came with
\* a bolt, under a new id and at a later time than the one before, and no
\* operation other than an admission has removed an effect
Logged(op, id, L) ==
    LET clean == log.clean
                    /\ (op = "addData" \/ (Len(L.bolts) = Len(lightningBoltEffects)
                                             /\ Len(L.markers) = Len(markerEffects)))
    IN  [op |-> op, id |-> id, clean |-> clean,
         admitted |-> IF clean THEN log.admitted ELSE <<>>]

Admitted(lg, id) ==
    IF ~ready THEN lg
    ELSE IF /\ lg.clean
            /\ config.showLightningBolt
            /\ Len(lg.admitted) < MaxAdmissions
            /\ \A i \in DOMAIN lg.admitted :
                  lg.admitted[i].id # id /\ lg.admitted[i].at < clock
    THEN [lg EXCEPT !.admitted = Append(@, [id |-> id, at |-> clock])]
    ELSE [lg EXCEPT !.admitted = <<>>, !.clean = FALSE]

Init ==
    /\ clock = 0
    /\ heap = <<>>
    /\ ended = <<>>
    /\ lightningBoltEffects = <<>>
    /\ markerEffects = <<>>
    /\ activeEffects = <<>>
    /\ visible = TRUE
    /\ ready = FALSE
    /\ subscribed = TRUE
    /\ config = [showLightningBolt |-> TRUE,
                 maxActiveAnimations |-> CapActive,
                 maxDisplayedStrikes |-> CapDisplayed]
    /\ ticks = 0
    /\ manager = NewLightningManager
    /\ generated = NoGeometry
    /\ showcase = NewShowcase(One)
    /\ dataStream = subscribe(NewDataStream, "layer")
    /\ log = [op |-> "new", id |-> 0, clean |-> TRUE, admitted |-> <<>>]

Initialize ==
    /\ ~ready
    /\ ready' = TRUE
    /\ ended' = <<>>
    /\ log' = [log EXCEPT !.op = "initialize", !.id = 0]
    /\ UNCHANGED <<manager, dataStream, generated, showcase, clock, ticks, heap, lightningBoltEffects, markerEffects,
                   activeEffects, visible, subscribed, config>>

AddData ==
    /\ \E id \in Ids, nb \in BranchOutcomes :
         LET L == addData(Layer, id, nb[1], nb[2])
         IN  Install(L) /\ log' = Admitted(Logged("addData", id, L), id)
    /\ UNCHANGED <<manager, dataStream, generated, showcase, clock, ticks, visible, ready, subscribed, config>>

UpdateLayer ==
    /\ LET L == update(Layer, clock)
       IN  Install(L) /\ log' = Logged("update", 0, L)
    /\ UNCHANGED <<manager, dataStream, generated, showcase, clock, ticks, visible, ready, subscribed, config>>

Clear ==
    /\ LET L == clear(Layer)
       IN  Install(L) /\ log' = Logged("clear", 0, L)
    /\ subscribed' = FALSE
    /\ dataStream' = IF subscribed THEN unsubscribe(dataStream, "layer") ELSE dataStream
    /\ UNCHANGED <<manager, generated, showcase, clock, ticks, visible, ready, config>>

SetShowLightningBolt ==
    \E show \in BOOLEAN :
        /\ config.showLightningBolt # show
        /\ config' = [config EXCEPT !.showLightningBolt = show]
        /\ LET L == IF ~show THEN clearLightningBoltEffects(Layer) ELSE Layer
           IN  Install(L)
               /\ log' = Logged("setShowLightningBolt", 0, L)
        /\ UNCHANGED <<manager, dataStream, generated, showcase, clock, ticks, visible, ready, subscribed>>

Hide ==
    /\ visible' = FALSE
    /\ LET clearing == ~config.showLightningBolt
           L == IF clearing THEN clearLightningBoltEffects(Layer) ELSE Layer
       IN  Install(L) /\ log' = Logged("hide", 0, L)
    /\ UNCHANGED <<manager, dataStream, generated, showcase, clock, ticks, ready, subscribed, config>>

Show ==
    /\ visible' = TRUE
    /\ ended' = <<>>
    /\ log' = [log EXCEPT !.op = "show", !.id = 0]
    /\ UNCHANGED <<manager, dataStream, generated, showcase, clock, ticks, heap, lightningBoltEffects, markerEffects,
                   activeEffects, ready, subscribed, config>>

Advance ==
    /\ ticks < MaxTicks
    /\ ticks' = ticks + 1
    /\ \E d \in Deltas : clock' = clock + d
    /\ ended' = <<>>
    /\ log' = [log EXCEPT !.op = "advance", !.id = 0]
    /\ UNCHANGED <<heap, layerVars, manager, dataStream, generated, showcase>>

Next ==
    \/ Initialize
    \/ AddData
    \/ UpdateLayer
    \/ Clear
    \/ SetShowLightningBolt
    \/ Hide
    \/ Show
    \/ Advance

Spec == Init /\ [][Next]_vars

(***************************************************************************)
(* One effect driven on its own through its public methods, in any order:  *)
(* heap holds the effect once constructed.  update is called with the      *)
(* clock as its argument on a bolt, which does not read it, and with any   *)
(* of a range of times around its creation on a marker.                    *)
(***************************************************************************)
Times == {250, 500, 900, 1000, 1400, 1500, 1600}
Speeds == {Frac(1, 1), Frac(2, 1), Frac(0, 1), Frac(0 - 1, 1)}
MarkerAges == {0 - 100, 0, 750, 1500, 10000, 35000, 60000, 60001}
Altitudes == {0, 1}

Op(name) == [log EXCEPT !.op = name, !.id = 0]

EffectConstruct ==
    /\ heap = <<>>
    /\ \/ \E speed \in Speeds :
            heap' = <<NewLightningBoltEffect(1,
                          BoltConfig(speed, DefaultBoltDuration), clock)>>
       \/ \E fadeIn \in {MarkerFadeInDuration, 0} :
            heap' = <<NewPointMarkerEffect(1, MarkerConfig(One, fadeIn), clock)>>
    /\ log' = Op("construct")
    /\ UNCHANGED <<clock, ticks, ended, layerVars, manager, dataStream, generated, showcase>>

EffectInitialize ==
    /\ heap # <<>>
    /\ ~heap[1].globeEl
    /\ ~heap[1].isTerminated
    /\ \/ /\ heap[1].kind = "bolt"
          /\ \E nb \in {0, BranchBound} : heap' = <<BoltInitialize(heap[1], nb)>>
       \/ /\ heap[1].kind = "marker"
          /\ heap' = <<MarkerInitialize(heap[1])>>
    /\ log' = Op("initialize")
    /\ UNCHANGED <<clock, ticks, ended, layerVars, manager, dataStream, generated, showcase>>

EffectPositionOnGlobe ==
    /\ heap # <<>>
    /\ \E nb \in {0, BranchBound} :
          /\ Len(heap[1].allocated) + 2 + 3 * nb <= MaxAllocated
          /\ heap' = <<PositionOnGlobe(heap[1], nb)>>
    /\ log' = Op("positionOnGlobe")
    /\ UNCHANGED <<clock, ticks, ended, layerVars, manager, dataStream, generated, showcase>>

EffectUpdateStartAltitude ==
    /\ heap # <<>>
    /\ heap[1].kind = "bolt"
    /\ \E nb \in {0, BranchBound}, altitude \in Altitudes :
          /\ Len(heap[1].allocated) + 2 + 3 * nb <= MaxAllocated
          /\ heap' = <<UpdateStartAltitude(heap[1], altitude, nb)>>
    /\ log' = Op("updateStartAltitude")
    /\ UNCHANGED <<clock, ticks, ended, layerVars, manager, dataStream, generated, showcase>>

EffectUpdateSpeed ==
    /\ heap # <<>>
    /\ heap[1].kind = "bolt"
    /\ \E speed \in Speeds : heap' = <<UpdateSpeed(heap[1], speed)>>
    /\ log' = Op("updateSpeed")
    /\ UNCHANGED <<clock, ticks, ended, layerVars, manager, dataStream, generated, showcase>>

EffectUpdate ==
    /\ heap # <<>>
    /\ \E currentTime \in IF heap[1].kind = "bolt" THEN {clock}
                          ELSE {heap[1].createTime + a : a \in MarkerAges} :
          heap' = <<Update(heap[1], currentTime, clock).effect>>
    /\ log' = Op(IF heap[1].isTerminated THEN "update after termination"
                 ELSE "update")
    /\ UNCHANGED <<clock, ticks, ended, layerVars, manager, dataStream, generated, showcase>>

EffectTerminateImmediately ==
    /\ heap # <<>>
    /\ heap' = <<TerminateImmediately(heap[1])>>
    /\ log' = Op(IF heap[1].isTerminated THEN "terminateImmediately again"
                 ELSE "terminateImmediately")
    /\ UNCHANGED <<clock, ticks, ended, layerVars, manager, dataStream, generated, showcase>>

EffectTick ==
    /\ \E t \in Times : t > clock /\ clock' = t
    /\ log' = Op("advance")
    /\ UNCHANGED <<ticks, heap, ended, layerVars, manager, dataStream, generated, showcase>>

NextEffect ==
    \/ EffectConstruct
    \/ EffectInitialize
    \/ EffectPositionOnGlobe
    \/ EffectUpdateStartAltitude
    \/ EffectUpdateSpeed
    \/ EffectUpdate
    \/ EffectTerminateImmediately
    \/ EffectTick

SpecEffect == Init /\ [][NextEffect]_vars

(***************************************************************************)
(* Two bolts constructed at the same instant with the same duration, the   *)
(* second with twice the speed of the first, each updated at any times,    *)
(* the last two update calls on each being kept in its samples.            *)
(***************************************************************************)
PairTimes == {250, 450, 500, 700, 750, 800, 900, 1000, 1400, 1500, 1600}
PairSpeeds == {Frac(1, 1), Frac(2, 1)}
PairDurations == {DefaultBoltDuration, LayerBoltDuration}

InitPair ==
    /\ clock = 0
    /\ ticks = 0
    /\ \E s \in PairSpeeds, duration \in PairDurations :
          heap = <<NewLightningBoltEffect(1, BoltConfig(s, duration), 0),
                   NewLightningBoltEffect(2,
                       BoltConfig(Frac(2 * s.num, s.den), duration), 0)>>
    /\ ended = <<>>
    /\ lightningBoltEffects = <<>>
    /\ markerEffects = <<>>
    /\ activeEffects = <<>>
    /\ visible = TRUE
    /\ ready = FALSE
    /\ subscribed = TRUE
    /\ config = [showLightningBolt |-> TRUE,
                 maxActiveAnimations |-> CapActive,
                 maxDisplayedStrikes |-> CapDisplayed]
    /\ manager = NewLightningManager
    /\ generated = NoGeometry
    /\ showcase = NewShowcase(One)
    /\ dataStream = subscribe(NewDataStream, "layer")
    /\ log = [op |-> "new", id |-> 0, clean |-> TRUE, admitted |-> <<>>]

PairUpdate(i) ==
    /\ heap' = [heap EXCEPT ![i] = Observed(@, Update(@, clock, clock), clock, clock)]
    /\ log' = [log EXCEPT !.op = "update", !.id = i]
    /\ UNCHANGED <<clock, ticks, ended, layerVars, manager, dataStream, generated, showcase>>

PairUpdateSlower == PairUpdate(1)

PairUpdateFaster == PairUpdate(2)

PairTick ==
    /\ \E t \in PairTimes : t > clock /\ clock' = t
    /\ log' = Op("advance")
    /\ UNCHANGED <<ticks, heap, ended, layerVars, manager, dataStream, generated, showcase>>

NextPair ==
    \/ PairUpdateSlower
    \/ PairUpdateFaster
    \/ PairTick

SpecPair == InitPair /\ [][NextPair]_vars

(***************************************************************************)
(* One bolt whose configured speed is zero or negative, updated by the     *)
(* render loop at every frame while time advances; the speed may be set    *)
(* again to another such value.                                            *)
(***************************************************************************)
DegenerateSpeeds == {Frac(0, 1), Frac(0 - 1, 1), Frac(0 - 2, 1)}

InitDegenerate ==
    /\ clock = 0
    /\ ticks = 0
    /\ \E s \in DegenerateSpeeds, duration \in PairDurations :
          heap = <<NewLightningBoltEffect(1, BoltConfig(s, duration), 0)>>
    /\ ended = <<>>
    /\ lightningBoltEffects = <<>>
    /\ markerEffects = <<>>
    /\ activeEffects = <<>>
    /\ visible = TRUE
    /\ ready = FALSE
    /\ subscribed = TRUE
    /\ config = [showLightningBolt |-> TRUE,
                 maxActiveAnimations |-> CapActive,
                 maxDisplayedStrikes |-> CapDisplayed]
    /\ manager = NewLightningManager
    /\ generated = NoGeometry
    /\ showcase = NewShowcase(One)
    /\ dataStream = subscribe(NewDataStream, "layer")
    /\ log = [op |-> "new", id |-> 0, clean |-> TRUE, admitted |-> <<>>]

DegenerateUpdate ==
    /\ heap' = <<Observed(heap[1], Update(heap[1], clock, clock), clock, clock)>>
    /\ log' = Op("update")
    /\ UNCHANGED <<clock, ticks, ended, layerVars, manager, dataStream, generated, showcase>>

DegenerateUpdateSpeed ==
    /\ \E speed \in DegenerateSpeeds : heap' = <<UpdateSpeed(heap[1], speed)>>
    /\ log' = Op("updateSpeed")
    /\ UNCHANGED <<clock, ticks, ended, layerVars, manager, dataStream, generated, showcase>>

DegenerateTick ==
    /\ \E t \in Times : t > clock /\ clock' = t
    /\ log' = Op("advance")
    /\ UNCHANGED <<ticks, heap, ended, layerVars, manager, dataStream, generated, showcase>>

NextDegenerate ==
    \/ DegenerateUpdate
    \/ DegenerateUpdateSpeed
    \/ DegenerateTick

\* the render loop calls update at every frame and time passes
SpecDegenerate ==
    /\ InitDegenerate
    /\ [][NextDegenerate]_vars
    /\ WF_vars(DegenerateUpdate)
    /\ WF_vars(DegenerateTick)

(***************************************************************************)
(* The layer and the manager while their collaborators come and go:        *)
(* initialize is called with a globe or with null, and strikes are         *)
(* admitted in between.                                                    *)
(***************************************************************************)
MaxCalls == 3          \* createLightning calls in one behaviour

InitializeWith ==
    /\ \E globeEl \in BOOLEAN : ready' = globeEl
    /\ ended' = <<>>
    /\ log' = [log EXCEPT !.op = "initialize", !.id = 0]
    /\ UNCHANGED <<manager, dataStream, generated, showcase, clock, ticks, heap, lightningBoltEffects, markerEffects,
                   activeEffects, visible, subscribed, config>>

ManagerInitialize ==
    /\ \E globeEl \in BOOLEAN : manager' = managerInitialize(manager, globeEl)
    /\ UNCHANGED <<clock, ticks, heap, ended, layerVars, dataStream, generated, showcase, log>>

ManagerCreateLightning ==
    /\ manager.calls < MaxCalls
    /\ \E id \in Ids : manager' = managerCreateLightning(manager, id, clock)
    /\ UNCHANGED <<clock, ticks, heap, ended, layerVars, dataStream, generated, showcase, log>>

NextCollaborator ==
    \/ InitializeWith
    \/ AddData
    \/ SetShowLightningBolt
    \/ ManagerInitialize
    \/ ManagerCreateLightning

SpecCollaborator == Init /\ [][NextCollaborator]_vars

(***************************************************************************)
(* The layer on its data stream: strikes arrive as socket messages and     *)
(* reach addData through the subscription that setDataStream made.  The    *)
(* stream may have another subscriber.                                     *)
(***************************************************************************)
InitStream ==
    /\ clock = 0
    /\ heap = <<>>
    /\ ended = <<>>
    /\ lightningBoltEffects = <<>>
    /\ markerEffects = <<>>
    /\ activeEffects = <<>>
    /\ visible = TRUE
    /\ ready = FALSE
    /\ subscribed = FALSE
    /\ config = [showLightningBolt |-> TRUE,
                 maxActiveAnimations |-> CapActive,
                 maxDisplayedStrikes |-> CapDisplayed]
    /\ ticks = 0
    /\ manager = NewLightningManager
    /\ generated = NoGeometry
    /\ showcase = NewShowcase(One)
    /\ dataStream = NewDataStream
    /\ log = [op |-> "new", id |-> 0, clean |-> TRUE, admitted |-> <<>>]

SetDataStream ==
    /\ dataStream' = subscribe(IF subscribed THEN unsubscribe(dataStream, "layer")
                                             ELSE dataStream, "layer")
    /\ subscribed' = TRUE
    /\ ended' = <<>>
    /\ log' = [log EXCEPT !.op = "setDataStream", !.id = 0]
    /\ UNCHANGED <<manager, generated, showcase, clock, ticks, heap, lightningBoltEffects,
                   markerEffects, activeEffects, visible, ready, config>>

OtherSubscribes ==
    /\ dataStream' = IF "other" \in dataStream.subscribers
                     THEN unsubscribe(dataStream, "other")
                     ELSE subscribe(dataStream, "other")
    /\ ended' = <<>>
    /\ log' = [log EXCEPT !.op = "other", !.id = 0]
    /\ UNCHANGED <<manager, generated, showcase, clock, ticks, heap, layerVars>>

RECURSIVE Deliver(_, _, _, _)
Deliver(L, id, nb, n) ==
    IF n = 0 THEN L ELSE Deliver(addData(L, id, nb[1], nb[2]), id, nb, n - 1)

StreamEvent ==
    /\ \E id \in Ids, nb \in BranchOutcomes :
         LET n == Deliveries(dataStream, "layer")
             L == Deliver(Layer, id, nb, n)
             lg == Admitted(Logged("addData", id, L), id)
         IN  /\ Install(L)
             /\ log' = IF n = 0 THEN [log EXCEPT !.op = "event", !.id = id]
                       ELSE IF n = 1 THEN lg
                       ELSE [lg EXCEPT !.clean = FALSE, !.admitted = <<>>]
    /\ UNCHANGED <<manager, dataStream, generated, showcase, clock, ticks, visible, ready, subscribed, config>>

NextStream ==
    \/ Initialize
    \/ SetDataStream
    \/ OtherSubscribes
    \/ StreamEvent
    \/ UpdateLayer
    \/ Clear
    \/ Advance

SpecStream == InitStream /\ [][NextStream]_vars

(***************************************************************************)
(* Two bolts constructed with one configuration at one place, each with    *)
(* its own generator, initialized and repositioned on their own.           *)
(***************************************************************************)
MaxGenerations == 2    \* geometries one bolt builds in one behaviour

Seeds == {0, 7, 42}                \* config.randomSeed; 0 also stands for none given
MathRandomSeeds == {2500, 5000}    \* outcomes of Math.random() * 10000
SegmentCounts == {1, 2, 8, 12}
JitterAmounts == {0, 20}           \* thousandths
BranchLimits == {0, 1, 4}
CloudPoints == {Vector3(0, 10, 0)}
SurfacePoints == {Vector3(0, 0, 0), Vector3(0, GroundY, 0), Vector3(3, 0 - 5, 4)}

NewGeometry(seed) ==
    [random |-> createRandomGenerator(seed), points |-> <<>>, roots |-> <<>>,
     generations |-> 0]

InitGeometry ==
    /\ clock = 0
    /\ heap = <<>>
    /\ ended = <<>>
    /\ lightningBoltEffects = <<>>
    /\ markerEffects = <<>>
    /\ activeEffects = <<>>
    /\ visible = TRUE
    /\ ready = FALSE
    /\ subscribed = FALSE
    /\ config = [showLightningBolt |-> TRUE,
                 maxActiveAnimations |-> CapActive,
                 maxDisplayedStrikes |-> CapDisplayed]
    /\ ticks = 0
    /\ manager = NewLightningManager
    /\ dataStream = NewDataStream
    /\ showcase = NewShowcase(One)
    /\ log = [op |-> "new", id |-> 0, clean |-> TRUE, admitted |-> <<>>]
    /\ \E randomSeed \in Seeds, segments \in SegmentCounts, jitter \in JitterAmounts,
          maxBranches \in BranchLimits, cloudPoint \in CloudPoints,
          surfacePoint \in SurfacePoints, m1 \in MathRandomSeeds, m2 \in MathRandomSeeds :
         generated =
            [config |-> [randomSeed |-> randomSeed, lineSegments |-> segments,
                         jitterAmount |-> jitter, branchChance |-> BranchChance,
                         maxBranches |-> maxBranches],
             cloudPoint |-> cloudPoint,
             surfacePoint |-> surfacePoint,
             bolts |-> <<NewGeometry(IF randomSeed # 0 THEN randomSeed ELSE m1),
                         NewGeometry(IF randomSeed # 0 THEN randomSeed ELSE m2)>>]

GeometryInitialize ==
    /\ \E i \in 1..2 :
         /\ generated.bolts[i].generations = 0
         /\ generated' = [generated EXCEPT !.bolts[i] =
                Regenerate(@, generated.cloudPoint, generated.surfacePoint,
                           generated.config)]
    /\ UNCHANGED <<clock, ticks, heap, ended, layerVars, manager, dataStream, showcase, log>>

GeometryPositionOnGlobe ==
    /\ \E i \in 1..2 :
         /\ generated.bolts[i].generations \in 1..(MaxGenerations - 1)
         /\ generated' = [generated EXCEPT !.bolts[i] =
                Regenerate(@, generated.cloudPoint, generated.surfacePoint,
                           generated.config)]
    /\ UNCHANGED <<clock, ticks, heap, ended, layerVars, manager, dataStream, showcase, log>>

NextGeometry == GeometryInitialize \/ GeometryPositionOnGlobe

SpecGeometry == InitGeometry /\ [][NextGeometry]_vars

(***************************************************************************)
(* The showcase scene: strikes are created by the controller's timers, the *)
(* speed control changes the speed prop of both components, and on every   *)
(* frame the controller updates its strike and the ground its flash.       *)
(***************************************************************************)
MaxStrikes == 2        \* strikes the controller creates in one behaviour

ShowcaseSpeeds == {Zero, One, Frac(2, 1)}    \* the speed prop
ShowcaseTimes == {250, 500, 750, 1000, 1250, 1500, 1750}

BaseInterval == 3500
Infinity == 1000000000             \* Date.now() + interval / 0
RandomVariations == {0, 1500}      \* outcomes of Math.random() * randomVariation

\* a number of milliseconds divided by the speed
DividedBySpeed(ms, speed) == (ms * speed.den) \div speed.num

\* the end of createNewStrike: strikePending reset and the next strike time set
nextStrikeTime(S, variation, now) ==
    [S EXCEPT !.strikePending = FALSE,
              !.timeRef = IF S.currentSpeedRef.num = 0 THEN Infinity
                          ELSE now + DividedBySpeed(BaseInterval + variation,
                                                    S.currentSpeedRef)]

InitShowcase ==
    /\ clock = 0
    /\ heap = <<>>
    /\ ended = <<>>
    /\ lightningBoltEffects = <<>>
    /\ markerEffects = <<>>
    /\ activeEffects = <<>>
    /\ visible = TRUE
    /\ ready = FALSE
    /\ subscribed = FALSE
    /\ config = [showLightningBolt |-> TRUE,
                 maxActiveAnimations |-> CapActive,
                 maxDisplayedStrikes |-> CapDisplayed]
    /\ ticks = 0
    /\ manager = NewLightningManager
    /\ dataStream = NewDataStream
    /\ generated = NoGeometry
    /\ \E speed \in ShowcaseSpeeds : showcase = NewShowcase(speed)
    /\ log = [op |-> "new", id |-> 0, clean |-> TRUE, admitted |-> <<>>]

CreateNewStrike ==
    /\ showcase.strikes < MaxStrikes
    /\ \E nb \in 0..BranchBound :
         LET strike == setStartTime(
                           BoltInitialize(
                               NewLightningBoltEffect(showcase.strikes + 1,
                                   BoltConfig(showcase.currentSpeedRef, DefaultBoltDuration),
                                   clock),
                               nb),
                           clock)
             started == [showcase EXCEPT !.startTimeRef = clock, !.strikes = @ + 1]
             detail == strikeDetail(started)
         IN  /\ heap' = <<strike>>
             /\ ended' = IF heap = <<>> THEN <<>> ELSE <<TerminateImmediately(heap[1])>>
             /\ \E variation \in RandomVariations :
                   showcase' = nextStrikeTime(
                       handleLightning(dispatchEvent(started, detail), detail, clock),
                       variation, clock)
    /\ log' = Op("createNewStrike")
    /\ UNCHANGED <<clock, ticks, layerVars, manager, dataStream, generated>>

SetSpeed ==
    /\ \E speed \in ShowcaseSpeeds \ {showcase.speed} :
         /\ showcase' = [showcase EXCEPT !.speed = speed,
                                         !.currentSpeedRef = speed,
                                         !.flashData.currentSpeed = speed]
         /\ heap' = IF heap = <<>> THEN heap ELSE <<UpdateSpeed(heap[1], speed)>>
    /\ log' = Op("setSpeed")
    /\ UNCHANGED <<clock, ticks, ended, layerVars, manager, dataStream, generated>>

ShowcaseFrame ==
    /\ heap' = IF heap = <<>> THEN heap
               ELSE <<Update(UpdateSpeed(heap[1], showcase.currentSpeedRef),
                             clock, clock).effect>>
    /\ showcase' = [showcase EXCEPT !.flashData = groundFrame(@, clock)]
    /\ log' = Op("frame")
    /\ UNCHANGED <<clock, ticks, ended, layerVars, manager, dataStream, generated>>

ShowcaseTick ==
    /\ \E t \in ShowcaseTimes : t > clock /\ clock' = t
    /\ log' = Op("tick")
    /\ UNCHANGED <<ticks, heap, ended, layerVars, manager, dataStream, generated, showcase>>

NextShowcase == CreateNewStrike \/ SetSpeed \/ ShowcaseFrame \/ ShowcaseTick

SpecShowcase == InitShowcase /\ [][NextShowcase]_vars

(***************************************************************************)
(* The layer under live configuration: setConfig stores any value under a  *)
(* path, and the layer reads both caps with getConfig each time it         *)
(* enforces them.                                                          *)
(***************************************************************************)
MaxRecords == 2
CapValues == {0 - 1, 0, 1}
CapPaths == {"maxActiveAnimations", "maxDisplayedStrikes"}

setConfig(C, path, value) == [C EXCEPT ![path] = value]

SetConfig ==
    /\ \E path \in CapPaths, value \in CapValues :
          /\ config[path] # value
          /\ config' = setConfig(config, path, value)
    /\ ended' = <<>>
    /\ log' = [log EXCEPT !.op = "setConfig", !.id = 0]
    /\ UNCHANGED <<manager, dataStream, generated, showcase, clock, ticks, heap,
                   lightningBoltEffects, markerEffects, activeEffects, visible,
                   ready, subscribed>>

\* admissions while the records are few: with a cap of 0 read as the default
\* the records of repeated admissions would otherwise grow without bound
AddDataBounded ==
    /\ Len(activeEffects) < MaxRecords
    /\ \E id \in Ids :
         LET L == addData(Layer, id, 0, 0)
         IN  Install(L) /\ log' = Admitted(Logged("addData", id, L), id)
    /\ UNCHANGED <<manager, dataStream, generated, showcase, clock, ticks, visible,
                   ready, subscribed, config>>

NextConfig ==
    \/ Initialize
    \/ AddDataBounded
    \/ SetConfig
    \/ UpdateLayer
    \/ Advance

SpecConfig == Init /\ [][NextConfig]_vars

(***************************************************************************)
(* One initialized bolt with a positive speed, updated at any times while  *)
(* time advances, its speed being set again at any moment in between; the  *)
(* last two update calls are kept in its samples.                          *)
(***************************************************************************)
LiveSpeeds == {Frac(1, 2), Frac(1, 1), Frac(2, 1)}

InitSpeed ==
    /\ clock = 0
    /\ ticks = 0
    /\ \E s \in LiveSpeeds, duration \in PairDurations :
          heap = <<BoltInitialize(
                       NewLightningBoltEffect(1, BoltConfig(s, duration), 0), 0)>>
    /\ ended = <<>>
    /\ lightningBoltEffects = <<>>
    /\ markerEffects = <<>>
    /\ activeEffects = <<>>
    /\ visible = TRUE
    /\ ready = FALSE
    /\ subscribed = TRUE
    /\ config = [showLightningBolt |-> TRUE,
                 maxActiveAnimations |-> CapActive,
                 maxDisplayedStrikes |-> CapDisplayed]
    /\ manager = NewLightningManager
    /\ generated = NoGeometry
    /\ showcase = NewShowcase(One)
    /\ dataStream = subscribe(NewDataStream, "layer")
    /\ log = [op |-> "new", id |-> 0, clean |-> TRUE, admitted |-> <<>>]

SpeedUpdate ==
    /\ heap' = <<Observed(heap[1], Update(heap[1], clock, clock), clock, clock)>>
    /\ log' = Op("update")
    /\ UNCHANGED <<clock, ticks, ended, layerVars, manager, dataStream, generated, showcase>>

SpeedUpdateSpeed ==
    /\ \E speed \in LiveSpeeds :
          /\ speed # heap[1].speed
          /\ heap' = <<UpdateSpeed(heap[1], speed)>>
    /\ log' = Op("updateSpeed")
    /\ UNCHANGED <<clock, ticks, ended, layerVars, manager, dataStream, generated, showcase>>

SpeedTick ==
    /\ \E t \in Times : t > clock /\ clock' = t
    /\ log' = Op("advance")
    /\ UNCHANGED <<ticks, heap, ended, layerVars, manager, dataStream, generated, showcase>>

NextSpeed ==
    \/ SpeedUpdate
    \/ SpeedUpdateSpeed
    \/ SpeedTick

SpecSpeed == InitSpeed /\ [][NextSpeed]_vars

(***************************************************************************)
(* The layer under its render loop: update may be called at any frame and  *)
(* time passes.  Strikes are admitted for a while; after the last admission *)
(* time advances once more by longer than the longest lifetime of an       *)
(* effect, the age at which a marker is removed.                           *)
(***************************************************************************)
LiveAddData == ticks <= MaxTicks /\ AddDataBounded

LiveAdvance ==
    /\ ticks <= MaxTicks
    /\ ticks' = ticks + 1
    /\ \E d \in IF ticks < MaxTicks THEN Deltas ELSE {MarkerMaxAge + LayerBoltDuration} :
          clock' = clock + d
    /\ ended' = <<>>
    /\ log' = [log EXCEPT !.op = "advance", !.id = 0]
    /\ UNCHANGED <<heap, layerVars, manager, dataStream, generated, showcase>>

NextLive ==
    \/ Initialize
    \/ LiveAddData
    \/ UpdateLayer
    \/ Hide
    \/ Show
    \/ LiveAdvance

\* time passes
SpecLive ==
    /\ Init
    /\ [][NextLive]_vars
    /\ WF_vars(LiveAdvance)

(***************************************************************************)
(* A tick in which the update of one tracked effect throws.  update calls  *)
(* effect.update inside the callbacks of its two forEach loops, with no    *)
(* try around them: the exception ends the loop it is raised in and        *)
(* leaves update, so that the deletions that follow that loop and          *)
(* everything after them do not happen.  The effect whose update throws is *)
(* taken to throw before it has changed anything.                          *)
(***************************************************************************)
\* the bolts' forEach up to an exception: the bolts before the throwing one
\* are updated and the records of the completed ones filtered; the loop over
\* completedBoltIds that deletes them is not reached
RECURSIVE UpdateBoltsUndeleted(_, _, _)
UpdateBoltsUndeleted(L, entries, currentTime) ==
    IF entries = <<>> THEN L
    ELSE LET e == Head(entries)
             r == Update(L.heap[e.ref], currentTime, clock)
             L1 == [L EXCEPT !.heap[e.ref] = r.effect]
             L2 == IF r.alive THEN L1
                   ELSE [L1 EXCEPT !.active = SelectSeq(@, LAMBDA a : a.id # e.id)]
         IN  UpdateBoltsUndeleted(L2, Tail(entries), currentTime)

\* the markers' forEach up to an exception
RECURSIVE UpdateMarkersUndeleted(_, _, _)
UpdateMarkersUndeleted(L, entries, currentTime) ==
    IF entries = <<>> THEN L
    ELSE LET e == Head(entries)
             r == Update(L.heap[e.ref], currentTime, clock)
         IN  UpdateMarkersUndeleted([L EXCEPT !.heap[e.ref] = r.effect],
                                    Tail(entries), currentTime)

\* update when the k-th effect.update call of the tick throws, the bolts
\* being counted first and the markers after them
updateThrowing(L, currentTime, k) ==
    IF ~visible THEN L
    ELSE IF k <= Len(L.bolts)
    THEN UpdateBoltsUndeleted(L, SubSeq(L.bolts, 1, k - 1), currentTime)
    ELSE LET L1 == UpdateBolts(L, L.bolts, currentTime)
         IN  UpdateMarkersUndeleted(L1,
                 SubSeq(L1.markers, 1, k - Len(L.bolts) - 1), currentTime)

UpdateThrows ==
    /\ visible
    /\ \E k \in 1..(Len(lightningBoltEffects) + Len(markerEffects)) :
         LET L == updateThrowing(Layer, clock, k)
         IN  Install(L) /\ log' = [Logged("update", 0, L) EXCEPT !.op = "update throws", !.id = k]
    /\ UNCHANGED <<manager, dataStream, generated, showcase, clock, ticks, visible,
                   ready, subscribed, config>>

NextThrow ==
    \/ Initialize
    \/ AddDataBounded
    \/ UpdateLayer
    \/ UpdateThrows
    \/ Advance

SpecThrow == Init /\ [][NextThrow]_vars

(***************************************************************************)
(* The bolt options of the layer: the options are configured, within       *)
(* their ranges, at any time; an admission builds the configuration of     *)
(* its bolt from the values configured at that moment and generates the    *)
(* path and the branches of the bolt with it.                              *)
(***************************************************************************)
LayerLineSegments == 8
LayerJitterAmount == 20            \* 0.02 in thousandths
LayerMaxBranches == 4

OptionPaths == {"lineSegments", "jitterAmount", "branchChance", "maxBranches"}
OptionValues ==
    [lineSegments |-> {8, 12},
     jitterAmount |-> {0, 4, LayerJitterAmount},
     branchChance |-> {0, BranchChance, 10000},
     maxBranches |-> {0, 1, LayerMaxBranches}]

\* the config object createLightningBoltEffect builds: getConfig(...) || default
lightningBoltConfig(C) ==
    [lineSegments |-> OrDefault(C.lightningBoltConfig.lineSegments, LayerLineSegments),
     jitterAmount |-> OrDefault(C.lightningBoltConfig.jitterAmount, LayerJitterAmount),
     branchChance |-> OrDefault(C.lightningBoltConfig.branchChance, BranchChance),
     maxBranches |-> OrDefault(C.lightningBoltConfig.maxBranches, LayerMaxBranches),
     randomSeed |-> 0]

InitOptions ==
    /\ clock = 0
    /\ ticks = 0
    /\ heap = <<>>
    /\ ended = <<>>
    /\ lightningBoltEffects = <<>>
    /\ markerEffects = <<>>
    /\ activeEffects = <<>>
    /\ visible = TRUE
    /\ ready = TRUE
    /\ subscribed = FALSE
    /\ \E segments \in OptionValues.lineSegments, jitter \in OptionValues.jitterAmount,
          chance \in OptionValues.branchChance, branches \in OptionValues.maxBranches :
          config = [showLightningBolt |-> TRUE,
                    maxActiveAnimations |-> CapActive,
                    maxDisplayedStrikes |-> CapDisplayed,
                    lightningBoltConfig |->
                        [lineSegments |-> segments, jitterAmount |-> jitter,
                         branchChance |-> chance, maxBranches |-> branches]]
    /\ manager = NewLightningManager
    /\ dataStream = NewDataStream
    /\ generated = NoGeometry
    /\ showcase = NewShowcase(One)
    /\ log = [op |-> "new", id |-> 0, clean |-> TRUE, admitted |-> <<>>]

\* setConfig('layers.lightning.lightningBoltConfig.<path>', value)
OptionsSetConfig ==
    /\ \E path \in OptionPaths :
         \E value \in OptionValues[path] \ {config.lightningBoltConfig[path]} :
            config' = [config EXCEPT !.lightningBoltConfig =
                          setConfig(@, path, value)]
    /\ log' = [log EXCEPT !.op = "setConfig", !.id = 0]
    /\ UNCHANGED <<clock, ticks, heap, ended, lightningBoltEffects, markerEffects,
                   activeEffects, visible, ready, subscribed, manager, dataStream,
                   generated, showcase>>

\* the bolt of an admission: its configuration, and the path and branches
\* initialize generates with it
OptionsAddData ==
    /\ \E id \in Ids, seed \in MathRandomSeeds, surfacePoint \in SurfacePoints :
         LET cfg == lightningBoltConfig(config)
             cloudPoint == Vector3(0, 10, 0)
         IN  /\ generated' =
                    [config |-> cfg, cloudPoint |-> cloudPoint,
                     surfacePoint |-> surfacePoint,
                     bolts |-> <<Regenerate(NewGeometry(seed), cloudPoint,
                                            surfacePoint, cfg)>>]
             /\ log' = [log EXCEPT !.op = "addData", !.id = id]
    /\ UNCHANGED <<clock, ticks, heap, ended, lightningBoltEffects, markerEffects,
                   activeEffects, visible, ready, subscribed, manager, dataStream,
                   config, showcase>>

NextOptions == OptionsSetConfig \/ OptionsAddData

SpecOptions == InitOptions /\ [][NextOptions]_vars

(***************************************************************************)
(* The showcase controller and its timers.  The mount effect schedules     *)
(* createNewStrike after 500 ms; the frame callback schedules it when the  *)
(* next strike is due or the strike has ended, unless strikePending is     *)
(* set; a timer runs createNewStrike when it is due.  The speed prop is 1  *)
(* or 2 and the clock starts at the time of the mount.                     *)
(***************************************************************************)
MountTime == 1000
MaxControllerTime == 5000
InitialDelay == 500
DueDelay == 100
EndedDelay == 500
ControllerSpeeds == {One, Frac(2, 1)}
FrameDeltas == {100, 400, 1600}

\* setTimeout(createNewStrike, delay)
setTimeout(S, delay, now) == [S EXCEPT !.timers = Append(@, now + delay)]

\* setTimeout(createNewStrike, delay) preceded by strikePending.current = true
setPendingTimeout(S, delay, now) ==
    setTimeout([S EXCEPT !.strikePending = TRUE], delay, now)

\* the mount effect
mountEffect(S, now) == setTimeout(S, InitialDelay, now)

InitController ==
    /\ clock = MountTime
    /\ ticks = 0
    /\ heap = <<>>
    /\ ended = <<>>
    /\ lightningBoltEffects = <<>>
    /\ markerEffects = <<>>
    /\ activeEffects = <<>>
    /\ visible = TRUE
    /\ ready = FALSE
    /\ subscribed = FALSE
    /\ config = [showLightningBolt |-> TRUE,
                 maxActiveAnimations |-> CapActive,
                 maxDisplayedStrikes |-> CapDisplayed]
    /\ manager = NewLightningManager
    /\ dataStream = NewDataStream
    /\ generated = NoGeometry
    /\ \E speed \in ControllerSpeeds : showcase = mountEffect(NewShowcase(speed), clock)
    /\ log = [op |-> "mount", id |-> 0, clean |-> TRUE, admitted |-> <<>>]

\* the controller's useFrame
ControllerFrame ==
    /\ LET due == clock > showcase.timeRef /\ ~showcase.strikePending
           S1 == IF due THEN setPendingTimeout(showcase, DueDelay, clock) ELSE showcase
           r == Update(UpdateSpeed(heap[1], S1.currentSpeedRef), clock, clock)
           over == heap # <<>> /\ ~r.alive /\ ~S1.strikePending
       IN  /\ heap' = IF heap = <<>> THEN heap ELSE <<r.effect>>
           /\ showcase' = IF over
                          THEN setPendingTimeout(S1,
                                   DividedBySpeed(EndedDelay, S1.currentSpeedRef), clock)
                          ELSE S1
    /\ log' = Op("frame")
    /\ UNCHANGED <<clock, ticks, ended, layerVars, manager, dataStream, generated>>

\* the timer due first runs createNewStrike
ControllerTimer ==
    /\ showcase.strikes < MaxStrikes
    /\ \E i \in DOMAIN showcase.timers :
         /\ showcase.timers[i] <= clock
         /\ \A j \in DOMAIN showcase.timers :
               \/ showcase.timers[j] > showcase.timers[i]
               \/ showcase.timers[j] = showcase.timers[i] /\ j >= i
         /\ \E variation \in RandomVariations :
              LET strike == setStartTime(
                                BoltInitialize(
                                    NewLightningBoltEffect(showcase.strikes + 1,
                                        BoltConfig(showcase.currentSpeedRef,
                                                   DefaultBoltDuration),
                                        clock),
                                    0),
                                clock)
                  fired == [showcase EXCEPT
                               !.timers = SubSeq(@, 1, i - 1) \o SubSeq(@, i + 1, Len(@)),
                               !.startTimeRef = clock, !.strikes = @ + 1]
                  detail == strikeDetail(fired)
              IN  /\ heap' = <<strike>>
                  /\ ended' = IF heap = <<>> THEN <<>>
                              ELSE <<TerminateImmediately(heap[1])>>
                  /\ showcase' = nextStrikeTime(
                         handleLightning(dispatchEvent(fired, detail), detail, clock),
                         variation, clock)
    /\ log' = Op("createNewStrike")
    /\ UNCHANGED <<clock, ticks, layerVars, manager, dataStream, generated>>

\* the speed prop changes
ControllerSetSpeed ==
    /\ \E speed \in ControllerSpeeds \ {showcase.speed} :
         /\ showcase' = [showcase EXCEPT !.speed = speed,
                                         !.currentSpeedRef = speed,
                                         !.flashData.currentSpeed = speed]
         /\ heap' = IF heap = <<>> THEN heap ELSE <<UpdateSpeed(heap[1], speed)>>
    /\ log' = Op("setSpeed")
    /\ UNCHANGED <<clock, ticks, ended, layerVars, manager, dataStream, generated>>

\* time passes, no further than the moment the next timer is due
ControllerTick ==
    /\ \E delta \in FrameDeltas :
         /\ clock + delta <= MaxControllerTime
         /\ \A i \in DOMAIN showcase.timers : clock + delta <= showcase.timers[i]
         /\ clock' = clock + delta
    /\ log' = Op("tick")
    /\ UNCHANGED <<ticks, heap, ended, layerVars, manager, dataStream, generated, showcase>>

NextController == ControllerFrame \/ ControllerTimer \/ ControllerSetSpeed \/ ControllerTick

SpecController == InitController /\ [][NextController]_vars

(***************************************************************************)
(* The socket of the strike data stream (useWebSocket).  The hook connects *)
(* on mount; callbacks subscribe and unsubscribe at any time, the last     *)
(* unsubscribe disconnecting; sockets open and close asynchronously, and   *)
(* a close schedules a reconnect while attempts remain.  sockets holds     *)
(* the readyState of every WebSocket constructed so far, and idle is set   *)
(* from a disconnect until the next subscribe.                             *)
(***************************************************************************)
MaxSockets == 3
MaxReconnectAttempts == 5
Callbacks == {"layer", "other"}

NewWebSocket ==
    [subscribers |-> {}, socketSubscribers |-> {},
     sockets |-> <<>>, socketRef |-> 0,
     reconnectAttempts |-> 0, reconnectTimeout |-> FALSE, idle |-> FALSE]

IsOpen(D) == D.socketRef # 0 /\ D.sockets[D.socketRef] = "OPEN"

connect(D) ==
    IF IsOpen(D) THEN D
    ELSE [D EXCEPT !.sockets = Append(@, "CONNECTING"),
                   !.socketRef = Len(D.sockets) + 1]

disconnect(D) ==
    LET D1 == [D EXCEPT !.reconnectTimeout = FALSE, !.idle = TRUE]
    IN  IF IsOpen(D1) THEN [D1 EXCEPT !.sockets[D1.socketRef] = "CLOSING"] ELSE D1

\* socket.onclose
onclose(D) ==
    IF D.reconnectAttempts < MaxReconnectAttempts
    THEN [D EXCEPT !.reconnectAttempts = @ + 1, !.reconnectTimeout = TRUE]
    ELSE D

\* subscribe of useWebSocket under subscribeToLightning
webSocketSubscribe(D, callback) ==
    LET D1 == [subscribe(D, callback) EXCEPT !.idle = FALSE]
    IN  IF ~IsOpen(D1) THEN connect(D1) ELSE D1

\* the function subscribeToLightning returns
webSocketUnsubscribe(D, callback) ==
    LET D1 == unsubscribe(D, callback)
    IN  IF D1.socketSubscribers = {} THEN disconnect(D1) ELSE D1

InitSocket ==
    /\ clock = 0
    /\ ticks = 0
    /\ heap = <<>>
    /\ ended = <<>>
    /\ lightningBoltEffects = <<>>
    /\ markerEffects = <<>>
    /\ activeEffects = <<>>
    /\ visible = TRUE
    /\ ready = FALSE
    /\ subscribed = FALSE
    /\ config = [showLightningBolt |-> TRUE,
                 maxActiveAnimations |-> CapActive,
                 maxDisplayedStrikes |-> CapDisplayed]
    /\ manager = NewLightningManager
    /\ dataStream = connect(NewWebSocket)
    /\ generated = NoGeometry
    /\ showcase = NewShowcase(One)
    /\ log = [op |-> "mount", id |-> 0, clean |-> TRUE, admitted |-> <<>>]

SocketSubscribe ==
    /\ \E callback \in Callbacks \ dataStream.subscribers :
         /\ IsOpen(dataStream) \/ Len(dataStream.sockets) < MaxSockets
         /\ dataStream' = webSocketSubscribe(dataStream, callback)
    /\ log' = Op("subscribe")
    /\ UNCHANGED <<clock, ticks, heap, ended, layerVars, manager, generated, showcase>>

SocketUnsubscribe ==
    /\ \E callback \in dataStream.subscribers :
         dataStream' = webSocketUnsubscribe(dataStream, callback)
    /\ log' = Op("unsubscribe")
    /\ UNCHANGED <<clock, ticks, heap, ended, layerVars, manager, generated, showcase>>

\* a connecting socket opens: socket.onopen
SocketOpens ==
    /\ \E i \in DOMAIN dataStream.sockets :
         /\ dataStream.sockets[i] = "CONNECTING"
         /\ dataStream' = [dataStream EXCEPT !.sockets[i] = "OPEN",
                                             !.reconnectAttempts = 0]
    /\ log' = Op("onopen")
    /\ UNCHANGED <<clock, ticks, heap, ended, layerVars, manager, generated, showcase>>

\* a socket closes, by close() or by the server: socket.onclose
SocketCloses ==
    /\ \E i \in DOMAIN dataStream.sockets :
         /\ dataStream.sockets[i] # "CLOSED"
         /\ dataStream' = onclose([dataStream EXCEPT !.sockets[i] = "CLOSED"])
    /\ log' = Op("onclose")
    /\ UNCHANGED <<clock, ticks, heap, ended, layerVars, manager, generated, showcase>>

\* the reconnect timer fires
ReconnectTimer ==
    /\ dataStream.reconnectTimeout
    /\ IsOpen(dataStream) \/ Len(dataStream.sockets) < MaxSockets
    /\ dataStream' = connect([dataStream EXCEPT !.reconnectTimeout = FALSE])
    /\ log' = Op("reconnect")
    /\ UNCHANGED <<clock, ticks, heap, ended, layerVars, manager, generated, showcase>>

NextSocket ==
    \/ SocketSubscribe
    \/ SocketUnsubscribe
    \/ SocketOpens
    \/ SocketCloses
    \/ ReconnectTimer

SpecSocket == InitSocket /\ [][NextSocket]_vars

(***************************************************************************)
(* Properties of the layer.                                                *)
(***************************************************************************)
maxActiveAnimations == OrDefault(config.maxActiveAnimations, DefaultMaxActiveAnimations)
maxDisplayedStrikes == OrDefault(config.maxDisplayedStrikes, DefaultMaxDisplayedStrikes)

Bolt(id) == heap[MapGet(lightningBoltEffects, id)]
Marker(id) == heap[MapGet(markerEffects, id)]
\* the effects of one kind the latest operation released
Released(kind) == {j \in DOMAIN ended : ended[j].kind = kind}
\* the non-terminated effects of one kind and id, tracked or just released
Living(kind, id) ==
    {<<"heap", r>> : r \in {q \in DOMAIN heap :
         heap[q].kind = kind /\ heap[q].id = id /\ ~heap[q].isTerminated}}
      \cup {<<"ended", j>> : j \in {q \in DOMAIN ended :
         ended[q].kind = kind /\ ended[q].id = id /\ ~ended[q].isTerminated}}

\* C1: with the caps fixed and positive, after every operation of the layer
\* the tracked bolts and the active records number at most
\* maxActiveAnimations and the tracked markers at most maxDisplayedStrikes.
CapsRespected ==
    /\ Len(lightningBoltEffects) <= maxActiveAnimations
    /\ Len(activeEffects) <= maxActiveAnimations
    /\ Len(markerEffects) <= maxDisplayedStrikes

\* an admission that found both collections full and evicted to make room
CapsRespectedWitness ==
    /\ log.op = "addData"
    /\ Len(activeEffects) = maxActiveAnimations
    /\ Len(lightningBoltEffects) = maxActiveAnimations
    /\ Len(markerEffects) = maxDisplayedStrikes
    /\ Released("bolt") # {}
    /\ Released("marker") # {}

\* C2: after K > maxActiveAnimations admissions of distinct ids at strictly
\* increasing timestamps, none expired and the marker cap not exceeded, the
\* tracked bolts are exactly those of the maxActiveAnimations latest
\* admissions, the bolt an admission pushed out was terminated when it was
\* removed, and the marker of each of the K strikes is tracked and not
\* terminated.
NewestBoltsKept ==
    LET adm == log.admitted
        K == Len(adm)
    IN  (log.clean /\ K > maxActiveAnimations /\ K <= maxDisplayedStrikes) =>
          /\ \A i \in 1..K : \A j \in 1..K :
                i < j => adm[i].id # adm[j].id /\ adm[i].at < adm[j].at
          /\ Len(lightningBoltEffects) = maxActiveAnimations
          /\ \A i \in (K - maxActiveAnimations + 1)..K :
                /\ MapHas(lightningBoltEffects, adm[i].id)
                /\ Bolt(adm[i].id).createTime = adm[i].at
                /\ ~Bolt(adm[i].id).isTerminated
          /\ \A i \in 1..(K - maxActiveAnimations) :
                ~MapHas(lightningBoltEffects, adm[i].id)
          /\ \A j \in DOMAIN ended : ended[j].isTerminated
          /\ log.op = "addData" =>
                \E j \in Released("bolt") :
                    /\ ended[j].id = adm[K - maxActiveAnimations].id
                    /\ ended[j].createTime = adm[K - maxActiveAnimations].at
                    /\ ended[j].isTerminated
          /\ \A i \in 1..K :
                /\ MapHas(markerEffects, adm[i].id)
                /\ Marker(adm[i].id).createTime = adm[i].at
                /\ ~Marker(adm[i].id).isTerminated

\* the admission that takes the bolts past the cap has just been made
NewestBoltsKeptWitness ==
    /\ log.clean
    /\ log.op = "addData"
    /\ Len(log.admitted) = maxActiveAnimations + 1
    /\ Len(log.admitted) <= maxDisplayedStrikes

\* C3: the admission that takes the markers to maxDisplayedStrikes + 1 leaves
\* exactly maxDisplayedStrikes markers tracked, and the marker it removes
\* (other than the one it replaces) is terminated and was created no later
\* than any marker kept; after maxDisplayedStrikes + 1 admissions of distinct
\* ids with none expired it is the marker of the first admission.
OldestMarkerRemoved ==
    LET adm == log.admitted
        evicted == {j \in Released("marker") : ended[j].id # log.id}
    IN  log.op = "addData" =>
          /\ \A j \in evicted :
                /\ Len(markerEffects) = maxDisplayedStrikes
                /\ ended[j].isTerminated
                /\ ~MapHas(lightningBoltEffects, ended[j].id)
                /\ \A i \in DOMAIN markerEffects :
                      ended[j].createTime <= heap[markerEffects[i].ref].createTime
                /\ \A k \in evicted : k = j
          /\ (log.clean /\ Len(adm) = maxDisplayedStrikes + 1) =>
                /\ Len(markerEffects) = maxDisplayedStrikes
                /\ MapKeys(markerEffects) = {adm[i].id : i \in 2..Len(adm)}
                /\ \E j \in evicted :
                      ended[j].id = adm[1].id /\ ended[j].createTime = adm[1].at

\* maxDisplayedStrikes + 1 distinct ids have just been admitted, none expired
OldestMarkerRemovedWitness ==
    /\ log.clean
    /\ log.op = "addData"
    /\ Len(log.admitted) = maxDisplayedStrikes + 1
    /\ Cardinality({log.admitted[i].id : i \in DOMAIN log.admitted})
          = maxDisplayedStrikes + 1

\* C4: for each id there is at most one bolt and at most one marker that is
\* not terminated, and every effect an operation lets go of, the ones an
\* admission replaces included, is terminated.
OnePerId ==
    /\ \A id \in Ids :
          /\ Cardinality(Living("bolt", id)) <= 1
          /\ Cardinality(Living("marker", id)) <= 1
    /\ \A j \in DOMAIN ended : ended[j].isTerminated
    /\ \A i \in DOMAIN lightningBoltEffects : \A j \in DOMAIN lightningBoltEffects :
          lightningBoltEffects[i].id = lightningBoltEffects[j].id => i = j
    /\ \A i \in DOMAIN markerEffects : \A j \in DOMAIN markerEffects :
          markerEffects[i].id = markerEffects[j].id => i = j

\* an admission of an id that had a bolt and a marker has replaced both
OnePerIdWitness ==
    /\ log.op = "addData"
    /\ \E j \in Released("bolt") : ended[j].id = log.id
    /\ \E j \in Released("marker") : ended[j].id = log.id
    /\ MapHas(markerEffects, log.id)
    /\ ~Marker(log.id).isTerminated

(***************************************************************************)
(* Properties of one effect.                                               *)
(***************************************************************************)
Geometries(o) == {k \in DOMAIN o.allocated : o.allocated[k].type = "geometry"}
Materials(o) == {k \in DOMAIN o.allocated : o.allocated[k].type = "material"}

\* C5: a terminated effect, whatever ended it and in whatever phase, is left
\* exactly as it is by another terminateImmediately: it stays terminated,
\* with opacity 0, no registered resources and no branches, and the dispose
\* count of every resource stays what it was.
SecondTerminateChangesNothing ==
    \A i \in DOMAIN heap :
        heap[i].isTerminated =>
            /\ TerminateImmediately(heap[i]) = heap[i]
            /\ FracEq(heap[i].opacity, Zero)
            /\ heap[i].resources = <<>>
            /\ heap[i].branches = <<>>
            /\ ~heap[i].inScene

\* terminateImmediately has been called on a bolt that was already terminated
\* and had been initialized with a branch
SecondTerminateChangesNothingWitness ==
    /\ log.op = "terminateImmediately again"
    /\ heap # <<>>
    /\ heap[1].kind = "bolt"
    /\ heap[1].isTerminated
    /\ Cardinality(Materials(heap[1])) > 1

\* C6: every geometry and material a bolt has allocated has been disposed
\* exactly once by the time the bolt is terminated.
EveryResourceDisposedOnce ==
    \A j \in Released("bolt") :
        ended[j].isTerminated =>
            \A k \in Geometries(ended[j]) \cup Materials(ended[j]) :
                ended[j].allocated[k].disposed = 1

\* the elapsed time of a sample scaled by its speed factor, and the duration,
\* both multiplied by the denominator of the speed factor
ScaledTime(o, sm) == (sm.at - o.startTime) * sm.speed.num
ScaledDuration(o, sm) == o.duration * sm.speed.den
InFadeIn(o, sm) == 3 * ScaledTime(o, sm) < ScaledDuration(o, sm)
InHold(o, sm) ==
    /\ ScaledDuration(o, sm) <= 3 * ScaledTime(o, sm)
    /\ 3 * ScaledTime(o, sm) < 2 * ScaledDuration(o, sm)
InFadeOut(o, sm) ==
    /\ 2 * ScaledDuration(o, sm) <= 3 * ScaledTime(o, sm)
    /\ ScaledTime(o, sm) <= ScaledDuration(o, sm)
Past(o, sm) == ScaledTime(o, sm) > ScaledDuration(o, sm)
SamplesOf(o) == {o.samples[n] : n \in DOMAIN o.samples}

PhaseMonotone ==
    \A i \in DOMAIN heap :
        LET o == heap[i]
        IN  /\ \A sm \in SamplesOf(o) :
                  sm.speed.num > 0 =>
                    /\ InHold(o, sm) => FracEq(sm.alpha, One)
                    /\ ScaledTime(o, sm) >= ScaledDuration(o, sm) =>
                          FracEq(sm.alpha, Zero)
            /\ Len(o.samples) = 2 =>
                  LET a == o.samples[1]
                      b == o.samples[2]
                  IN  (a.at < b.at /\ a.speed = b.speed /\ a.speed.num > 0) =>
                        /\ (InFadeIn(o, a) /\ InFadeIn(o, b)) =>
                              FracLt(a.alpha, b.alpha)
                        /\ (InFadeOut(o, a) /\ InFadeOut(o, b)) =>
                              FracLt(b.alpha, a.alpha)

\* a bolt sampled twice in FadeOut, the second time exactly at its duration
PhaseMonotoneWitness ==
    /\ heap # <<>>
    /\ Len(heap[1].samples) = 2
    /\ heap[1].samples[1].at < heap[1].samples[2].at
    /\ InFadeOut(heap[1], heap[1].samples[1])
    /\ InFadeOut(heap[1], heap[1].samples[2])
    /\ ScaledTime(heap[1], heap[1].samples[2]) = ScaledDuration(heap[1], heap[1].samples[2])

\* C9: of two bolts with the same startTime and duration and configured
\* speeds s and 2s, s not 0, the faster updated at elapsed time e/2 and the
\* slower at e report the same alive and leave the same alpha.
SpeedScalesTime ==
    Len(heap) = 2 =>
        \A a \in SamplesOf(heap[1]) : \A b \in SamplesOf(heap[2]) :
            (/\ heap[1].startTime = heap[2].startTime
             /\ heap[1].duration = heap[2].duration
             /\ heap[1].speed.num # 0
             /\ heap[2].speed.num * heap[1].speed.den
                   = 2 * heap[1].speed.num * heap[2].speed.den
             /\ a.at - heap[1].startTime = 2 * (b.at - heap[2].startTime)) =>
                /\ a.alive = b.alive
                /\ FracEq(a.alpha, b.alpha)

\* the slower bolt has faded to part of its opacity at 1400 and the faster at
\* 700, and the faster is gone at 800
SpeedScalesTimeWitness ==
    /\ Len(heap) = 2
    /\ Len(heap[1].samples) >= 1
    /\ Len(heap[2].samples) = 2
    /\ heap[1].samples[Len(heap[1].samples)].at = 1400
    /\ heap[2].samples[1].at = 700
    /\ heap[2].samples[1].alive
    /\ FracLt(Zero, heap[2].samples[1].alpha)
    /\ FracLt(heap[2].samples[1].alpha, One)
    /\ heap[2].samples[2].at = 800
    /\ ~heap[2].samples[2].alive

\* C10: the opacity of every effect, and of every branch of a bolt, is in
\* [0,1] after any updates, speed changes and terminations.
AlphaInUnit ==
    \A i \in DOMAIN heap :
        /\ InUnit(heap[i].opacity)
        /\ \A j \in DOMAIN heap[i].branches : InUnit(heap[i].branches[j].opacity)

\* C11: a bolt whose configured speed is zero or negative, updated again and
\* again while time advances, eventually reports not alive and is terminated.
DegenerateSpeedTerminates == <>(heap[1].isTerminated)

\* the times update may be passed or may read off the clock
AnyTimes == Times \cup {0} \cup {clock + a : a \in MarkerAges}

\* C12: update of a terminated bolt or marker, with any currentTime and at
\* any time, returns not alive and leaves the effect exactly as it is, its
\* opacity 0 and every dispose count unchanged.
StaleUpdateChangesNothing ==
    \A i \in DOMAIN heap :
        heap[i].isTerminated =>
            /\ FracEq(heap[i].opacity, Zero)
            /\ \A currentTime \in AnyTimes : \A perfNow \in AnyTimes :
                  Update(heap[i], currentTime, perfNow)
                      = [effect |-> heap[i], alive |-> FALSE]

\* update has been called on a marker that was initialized and terminated
StaleUpdateChangesNothingWitness ==
    /\ log.op = "update after termination"
    /\ heap # <<>>
    /\ heap[1].kind = "marker"
    /\ heap[1].isTerminated
    /\ heap[1].globeEl

ClearEmptiesAndUnsubscribes ==
    [][ /\ (log' # log /\ log'.op = "clear")
            => /\ lightningBoltEffects' = <<>>
               /\ markerEffects' = <<>>
               /\ activeEffects' = <<>>
               /\ heap' = <<>>
               /\ Len(ended') = Len(heap)
               /\ \A i \in DOMAIN heap :
                     /\ ended'[i].isTerminated
                     /\ ended'[i].id = heap[i].id
                     /\ ended'[i].kind = heap[i].kind
               /\ ~subscribed'
               /\ "layer" \notin dataStream'.subscribers
        /\ (~subscribed /\ log'.op \in {"addData", "event"})
            => UNCHANGED <<heap, lightningBoltEffects, markerEffects, activeEffects>> ]_vars

\* clear has just terminated a bolt and a marker of a subscribed layer, and
\* the stream still has its other subscriber
ClearEmptiesAndUnsubscribesWitness ==
    /\ log.op = "clear"
    /\ \E i \in DOMAIN ended : ended[i].kind = "bolt" /\ ended[i].isTerminated
    /\ \E i \in DOMAIN ended : ended[i].kind = "marker" /\ ended[i].isTerminated
    /\ ~subscribed
    /\ dataStream.subscribers = {"other"}
    /\ dataStream.socketSubscribers = {"other"}

(***************************************************************************)
(* Properties of the geometry.                                             *)
(***************************************************************************)
\* C15: for every segment count N >= 1 and jitter amount J >= 0 the path
\* has exactly N + 1 points, its first point is the origin (the cloud point)
\* exactly and its last point is the terminus (the surface point) exactly.
EndpointsExact ==
    \A i \in 1..2 :
        LET points == generated.bolts[i].points
        IN  points # <<>> =>
                /\ Len(points) = generated.config.lineSegments + 1
                /\ points[1] = Exact(generated.cloudPoint)
                /\ points[Len(points)] = Exact(generated.surfacePoint)

\* C16: a bolt has at most maxBranches branches, and none is rooted at one
\* of the first ceil(0.15 N) or the last ceil(0.15 N) vertices of its path
\* (vertices 0..N).
BranchesAwayFromAnchors ==
    \A i \in 1..2 :
        LET roots == generated.bolts[i].roots
            n == generated.config.lineSegments
            skip == (n * 15 + 99) \div 100
        IN  /\ Len(roots) <= generated.config.maxBranches
            /\ \A k \in DOMAIN roots : roots[k] >= skip /\ roots[k] <= n - skip

\* C17: two generations with the same seed, origin, terminus, segment count
\* and jitter amount give the same points, whatever was generated before:
\* the two bolts, once both have a path, have the same path.
SameInputsSamePath ==
    (generated.bolts[1].points # <<>> /\ generated.bolts[2].points # <<>>)
        => generated.bolts[1].points = generated.bolts[2].points

(***************************************************************************)
(* Properties of the marker.                                               *)
(***************************************************************************)
OpacityAges == MarkerAges \cup {1, 1499, 9999, 10001, 59999, 120000}
MaxOpacities == {One, Frac(1, 2), Zero}

\* the opacity the marker o is to have at age a <= maxAge
MarkerOpacityAt(o, a) ==
    IF a < o.fadeInDuration
    THEN Frac(a * o.maxOpacity.num, o.fadeInDuration * o.maxOpacity.den)
    ELSE IF a < o.fadeStartAge THEN o.maxOpacity
    ELSE Frac((o.maxAge - a) * o.maxOpacity.num,
              (o.maxAge - o.fadeStartAge) * o.maxOpacity.den)

\* C18: update of a live marker at age a = currentTime - createTime sets the
\* opacity to (a / fadeInDuration) times the configured maximum while
\* a < fadeInDuration, to the maximum while fadeInDuration <= a <
\* fadeStartAge, to the value on the line from the maximum at fadeStartAge
\* to 0 at maxAge from then on, and for a > maxAge returns not-alive and
\* terminates the marker.  (Ages below a fadeInDuration of 0 are left out:
\* the quotient a / fadeInDuration is then no rational number.)
MarkerOpacityFunction ==
    \A i \in DOMAIN heap :
        (heap[i].kind = "marker" /\ ~heap[i].isTerminated) =>
            \A a \in OpacityAges : \A max \in MaxOpacities :
              (a < heap[i].fadeInDuration => heap[i].fadeInDuration # 0) =>
                LET o == [heap[i] EXCEPT !.maxOpacity = max]
                    r == Update(o, o.createTime + a, clock)
                    expected == MarkerOpacityAt(o, a)
                IN  IF a > o.maxAge
                    THEN ~r.alive /\ r.effect.isTerminated
                    ELSE /\ r.alive
                         /\ ~r.effect.isTerminated
                         /\ \/ r.effect.opacity = expected
                            \/ /\ FracEq(r.effect.opacity, expected)
                               /\ (r.effect.opacity.den = 0) = (expected.den = 0)

\* a marker updated half way through its fade-out
MarkerOpacityFunctionWitness ==
    /\ log.op = "update"
    /\ heap # <<>>
    /\ heap[1].kind = "marker"
    /\ ~heap[1].isTerminated
    /\ FracEq(heap[1].opacity, Frac(1, 2))

(***************************************************************************)
(* Properties of the showcase.                                             *)
(***************************************************************************)
\* C19: from the moment the controller has created a strike and broadcast
\* it, after every frame the ground's flash intensity equals the alpha of
\* the strike, and the flash is over exactly when the strike has reported
\* not-alive, whatever speed changes were made in between.
GroundFollowsStrike ==
    (showcase.strikes > 0 /\ heap # <<>>) =>
        /\ heap[1].isTerminated = ~showcase.flashData.active
        /\ FracEq(heap[1].opacity, showcase.flashData.intensity)

(***************************************************************************)
(* Properties of the record list.                                          *)
(***************************************************************************)
\* C20: in every state of the layer the record list holds exactly one
\* record for each id of the bolt map and no other record: no id is in two
\* records and every record names a tracked bolt.
OneRecordPerBolt ==
    /\ \A i, j \in DOMAIN activeEffects :
          activeEffects[i].id = activeEffects[j].id => i = j
    /\ {activeEffects[i].id : i \in DOMAIN activeEffects}
          = {lightningBoltEffects[i].id : i \in DOMAIN lightningBoltEffects}

(***************************************************************************)
(* Properties of the marker cap.                                           *)
(***************************************************************************)
\* the ids whose marker the admission just made removed for the marker cap
\* (the marker of the admitted id itself is released by its replacement)
EvictedMarkerIds ==
    IF log.op # "addData" THEN {}
    ELSE {ended[j].id : j \in {q \in Released("marker") : ended[q].id # log.id}}

\* C21: when marker-cap eviction removes the marker of an id, the bolt
\* tracked under that id is terminated and removed from the bolt map in the
\* same operation, and no record with that id remains afterwards.
EvictedMarkerTakesBolt ==
    \A id \in EvictedMarkerIds :
        /\ ~MapHas(lightningBoltEffects, id)
        /\ \A j \in Released("bolt") : ended[j].id = id => ended[j].isTerminated
        /\ \A i \in DOMAIN activeEffects : activeEffects[i].id # id

(***************************************************************************)
(* Properties of a tick under live configuration.                          *)
(***************************************************************************)
\* the ids of the bolts, the markers and the records of a layer, and the
\* state of each tracked effect
TickOutcome(L) ==
    [bolts |-> {<<L.bolts[i].id, L.heap[L.bolts[i].ref]>> : i \in DOMAIN L.bolts},
     markers |-> {<<L.markers[i].id, L.heap[L.markers[i].ref]>> : i \in DOMAIN L.markers},
     active |-> {L.active[i].id : i \in DOMAIN L.active}]

\* C22: one tick of a visible layer leaves what these four steps in this
\* order leave: active-cap eviction, then the update of every surviving bolt
\* and marker with the removal of the ones reporting not-alive, then
\* marker-cap eviction.
TickInOrder ==
    [][(log'.op = "update" /\ visible)
          => TickOutcome([heap |-> heap', bolts |-> lightningBoltEffects',
                          markers |-> markerEffects', active |-> activeEffects'])
               = TickOutcome(enforceMaxDisplayedStrikes(
                                 update(ensureMaxActiveEffects(Layer), clock)))]_vars

\* C23: once a tick of a visible layer has returned, the tracked bolts number
\* at most the configured maxActiveAnimations and the tracked markers at most
\* the configured maxDisplayedStrikes, also when a cap has been lowered below
\* the current count since the last admission.
CapsReappliedByTick ==
    (/\ log.op = "update"
     /\ visible
     /\ config.maxActiveAnimations > 0
     /\ config.maxDisplayedStrikes > 0)
        => /\ Len(lightningBoltEffects) <= config.maxActiveAnimations
           /\ Len(markerEffects) <= config.maxDisplayedStrikes

(***************************************************************************)
(* Properties of a live bolt whose speed is set again.                     *)
(***************************************************************************)
\* two consecutive updates of a bolt at one instant after its start, both on
\* the live bolt, the second under twice the speed factor of the first
Doubling(o, a, b) ==
    /\ a.at = b.at
    /\ a.at > o.startTime
    /\ ~a.stale
    /\ a.alive
    /\ a.speed.num > 0
    /\ FracEq(b.speed, Frac(2 * a.speed.num, a.speed.den))

\* the time left at the instant of sample a, under its speed factor, until
\* the scaled time reaches the duration, as a fraction
Remaining(o, a) ==
    Frac(o.duration * a.speed.den - (a.at - o.startTime) * a.speed.num, a.speed.num)

\* C24: when the speed factor of a live bolt is doubled at an elapsed time
\* e > 0, the update made right after the change leaves the alpha the update
\* made right before it left, and from then on the bolt reports alive for
\* half the time that was left before the change and not-alive afterwards.
DoublingKeepsAlphaAndHalvesRest ==
    [][log'.op = "update" =>
         LET o == heap'[1]
         IN  /\ (Len(o.samples) = 2 /\ Doubling(o, o.samples[1], o.samples[2]))
                   => /\ o.samples[2].alive
                      /\ FracEq(o.samples[1].alpha, o.samples[2].alpha)
             /\ (/\ Len(heap[1].samples) = 2
                 /\ Doubling(heap[1], heap[1].samples[1], heap[1].samples[2])
                 /\ o.samples[2].speed = heap[1].samples[2].speed)
                   => LET a == heap[1].samples[1]
                          c == o.samples[2]
                          rest == Remaining(heap[1], a)
                          past == Frac(2 * (c.at - a.at), 1)
                      IN  /\ FracLt(past, rest) => c.alive
                          /\ FracLt(rest, past) => ~c.alive]_vars

\* the phase an update at time at under speed factor s leaves on a bolt that
\* started at start: 1 FadeIn, 2 Hold, 3 FadeOut, 4 not alive
PhaseFrom(start, duration, s, at) ==
    LET x == (at - start) * s.num
        D == duration * s.den
    IN  IF x > D THEN 4
        ELSE IF 3 * x < D THEN 1
        ELSE IF 3 * x < 2 * D THEN 2
        ELSE 3

\* C25: updateSpeed changes the speed factor of a bolt and nothing else
\* (startTime, duration, the terminated flag and the owned resources stay as
\* they were), and every later update of the live bolt leaves the phase
\* computed from the startTime of the construction under the speed then in
\* force.
UpdateSpeedChangesOnlySpeed ==
    [][/\ log'.op = "updateSpeed"
           => heap'[1] = [heap[1] EXCEPT !.speed = heap'[1].speed]
       /\ (log'.op = "update" /\ ~heap[1].isTerminated)
           => LET o == heap'[1]
                  sm == o.samples[Len(o.samples)]
              IN  sm.phase = PhaseFrom(o.createTime, o.duration, sm.speed, sm.at)]_vars

\* a bolt updated in its fade-in, then, its speed changed meanwhile, again at
\* a later time that the new speed places in the fade-out
UpdateSpeedChangesOnlySpeedWitness ==
    /\ log.op = "update"
    /\ Len(heap[1].samples) = 2
    /\ heap[1].samples[1].speed # heap[1].samples[2].speed
    /\ 0 < heap[1].samples[1].at
    /\ heap[1].samples[1].at < heap[1].samples[2].at
    /\ heap[1].samples[1].phase = 1
    /\ heap[1].samples[2].phase = 3

\* C26: of two consecutive updates of a bolt, the later one never leaves an
\* earlier phase than the one before it (FadeIn 1, Hold 2, FadeOut 3,
\* Terminated 4), whatever updateSpeed calls were made between the two, and a
\* bolt that has reported Terminated keeps reporting it.
PhaseOnlyForward ==
    \A i \in DOMAIN heap :
        Len(heap[i].samples) = 2 =>
            LET a == heap[i].samples[1]
                b == heap[i].samples[2]
            IN  a.at <= b.at => a.phase <= b.phase

(***************************************************************************)
(* Properties of the layer under its render loop.                          *)
(***************************************************************************)
\* C27: with update called at every frame while time advances, every
\* admitted bolt and every admitted marker is eventually removed from its
\* map, so that once the admissions have stopped both maps are eventually
\* empty for good, and every effect an operation releases is terminated.
EveryEffectEventuallyRemoved ==
    /\ [](\A j \in DOMAIN ended : ended[j].isTerminated)
    /\ []<>(log.op = "update")
          => <>[](lightningBoltEffects = <<>> /\ markerEffects = <<>>)

(***************************************************************************)
(* Properties of a tick in which an update throws.                         *)
(***************************************************************************)
\* what a tick owes to the effect an entry of a map tracks: it is updated,
\* and tracked afterwards, in the map given as it is after the tick, exactly
\* if its update reported alive
TickedIn(e, mapAfter, heapAfter) ==
    LET r == Update(heap[e.ref], clock, clock)
    IN  IF r.alive
        THEN /\ MapHas(mapAfter, e.id)
             /\ LET o == heapAfter[MapGet(mapAfter, e.id)]
                IN  /\ o = [r.effect EXCEPT !.opacity = o.opacity]
                    /\ o.opacity = r.effect.opacity
                          \/ FracEq(o.opacity, r.effect.opacity)
        ELSE ~MapHas(mapAfter, e.id)

\* C28: in a tick in which the update of one tracked effect throws, every
\* other tracked bolt and marker is updated all the same, and the ones whose
\* update reports not-alive are removed from their maps.
ThrowSparesTheOthers ==
    [][log'.op = "update throws" =>
         /\ \A i \in DOMAIN lightningBoltEffects :
               i # log'.id => TickedIn(lightningBoltEffects[i],
                                       lightningBoltEffects', heap')
         /\ \A j \in DOMAIN markerEffects :
               Len(lightningBoltEffects) + j # log'.id
                   => TickedIn(markerEffects[j], markerEffects', heap')]_vars

(***************************************************************************)
(* Properties of the caps under configured values that are not positive.   *)
(***************************************************************************)
\* C29: a configured cap that is zero or negative is enforced as the default
\* cap (10 bolts, 256 markers), which the few effects tracked here never
\* reach: an admission under such a maxActiveAnimations keeps the admitted
\* bolt and releases no bolt but the one it replaces and the ones that go
\* with a marker evicted for the marker cap, and an admission under such a
\* maxDisplayedStrikes keeps the admitted marker and evicts no marker.
NonPositiveCapIsDefault ==
    (log.op = "addData" /\ ready) =>
        /\ config.maxActiveAnimations <= 0 =>
              /\ MapHas(lightningBoltEffects, log.id)
              /\ \A j \in Released("bolt") :
                    ended[j].id = log.id \/ ended[j].id \in EvictedMarkerIds
        /\ config.maxDisplayedStrikes <= 0 =>
              /\ MapHas(markerEffects, log.id)
              /\ EvictedMarkerIds = {}

(***************************************************************************)
(* Properties of the markers admitted without bolts.                       *)
(***************************************************************************)
\* C30: an admission made while showLightningBolt is off creates the marker
\* with fadeInDuration 0 and creates no bolt, and an update of the layer
\* leaves every tracked marker of fadeInDuration 0 whose age is in
\* [0, fadeStartAge) at its configured maximum opacity.
MarkerAloneShowsAtOnce ==
    /\ (log.op = "addData" /\ ready /\ ~config.showLightningBolt) =>
          /\ MapHas(markerEffects, log.id)
          /\ Marker(log.id).fadeInDuration = 0
          /\ lightningBoltEffects = <<>>
          /\ Released("bolt") = {}
    /\ (log.op = "update" /\ visible) =>
          \A i \in DOMAIN markerEffects :
              LET o == heap[markerEffects[i].ref]
                  age == clock - o.createTime
              IN  (o.fadeInDuration = 0 /\ 0 <= age /\ age < o.fadeStartAge) =>
                      \/ o.opacity = o.maxOpacity
                      \/ FracEq(o.opacity, o.maxOpacity)

\* a marker admitted with the flag off and updated for the first time 400 ms
\* later, at its maximum opacity
MarkerAloneShowsAtOnceWitness ==
    /\ log.op = "update"
    /\ visible
    /\ ~config.showLightningBolt
    /\ \E i \in DOMAIN markerEffects :
          LET o == heap[markerEffects[i].ref]
          IN  /\ o.fadeInDuration = 0
              /\ clock - o.createTime = 400
              /\ o.opacity = o.maxOpacity
              /\ o.maxOpacity.num > 0

(***************************************************************************)
(* The broadcast of a strike.                                              *)
(***************************************************************************)

\* the step just made created a strike effect: the showcase's createNewStrike,
\* or an addData of the layer with scene and globe set and the bolts shown
StrikeAdmitted ==
    \/ log'.op = "createNewStrike"
    \/ log'.op = "addData" /\ ready /\ config.showLightningBolt

\* the strike effect the step just made created
AdmittedStrike ==
    IF log'.op = "createNewStrike" THEN heap'[1] ELSE heap'[MapGet(lightningBoltEffects', log'.id)]

\* C31: each time a strike effect is admitted exactly one 'lightning-strike'
\* broadcast is emitted in the same step, and its payload carries the anchor
\* position, the startTime, the speedFactor and the duration of that effect
OneBroadcastPerAdmission ==
    [][StrikeAdmitted =>
          /\ showcase'.dispatched.count = showcase.dispatched.count + 1
          /\ LET detail == showcase'.dispatched.detail
                 strike == AdmittedStrike
             IN  /\ {"position", "startTime", "speed", "duration"} \subseteq DOMAIN detail
                 /\ detail.startTime = strike.startTime
                 /\ detail.speed = strike.speed
                 /\ detail.duration = strike.duration]_vars

\* C31, the part the showcase bears out: one broadcast per created strike,
\* dispatched in the step that creates it, with the start time of the strike
OneBroadcastPerShowcaseStrike ==
    [][log'.op = "createNewStrike" =>
          /\ showcase'.dispatched.count = showcase.dispatched.count + 1
          /\ showcase'.dispatched.detail.startTime = heap'[1].startTime]_vars

\* C32: a broadcast that arrives while the ground still animates an earlier
\* one replaces the flash state by the start time and speed of the new
\* broadcast with the intensity at 0, and from then on the flash in progress
\* runs on the start time of the latest broadcast
BroadcastPreempts ==
    /\ [][(log'.op = "createNewStrike" /\ showcase.flashData.active) =>
             LET detail == showcase'.dispatched.detail
             IN  showcase'.flashData =
                    [active |-> TRUE, intensity |-> Zero, speed |-> detail.speed,
                     currentSpeed |-> detail.speed, startTime |-> detail.startTime]]_vars
    /\ []((showcase.dispatched.count > 0 /\ showcase.flashData.active) =>
             showcase.flashData.startTime = showcase.dispatched.detail.startTime)

\* a second strike was created 250 ms after the first, whose flash lasts at
\* least 750 ms at any speed, and the ground has drawn a frame since
BroadcastPreemptsWitness ==
    /\ log.op = "frame"
    /\ showcase.dispatched.count = 2
    /\ ended # <<>>
    /\ showcase.flashData.startTime = ended[1].startTime + 250
    /\ showcase.flashData.active
    /\ showcase.flashData.intensity.num > 0

(***************************************************************************)
(* What the result of update depends on.                                   *)
(***************************************************************************)

\* C33: the alpha and the alive result of update(currentTime) of a bolt are a
\* function of currentTime and of the bolt's startTime, speed and duration:
\* two calls passed the same currentTime on the same bolt, one made now and
\* one made at any later time, give the same alpha and the same result
UpdateDependsOnArgumentOnly ==
    \A i \in DOMAIN heap :
        (heap[i].kind = "bolt" /\ ~heap[i].isTerminated) =>
            \A currentTime \in Times \cup {clock} :
                \A perfNow \in {t \in Times : t > clock} :
                    LET first == Update(heap[i], currentTime, clock)
                        second == Update(heap[i], currentTime, perfNow)
                    IN  /\ first.alive = second.alive
                        /\ \/ first.effect.opacity = second.effect.opacity
                           \/ FracEq(first.effect.opacity, second.effect.opacity)

(***************************************************************************)
(* The strike just admitted.                                               *)
(***************************************************************************)

\* C34: with maxActiveAnimations at least 1, the scene and the globe set and
\* the bolts shown, the bolt addData creates is tracked and not terminated
\* when the call returns
AdmittedBoltSurvives ==
    (/\ log.op = "addData"
     /\ ready
     /\ config.showLightningBolt
     /\ maxActiveAnimations >= 1) =>
        /\ MapHas(lightningBoltEffects, log.id)
        /\ ~Bolt(log.id).isTerminated

(***************************************************************************)
(* The bolt options.                                                       *)
(***************************************************************************)

\* C35: every bolt option configured inside its range, 0 included for
\* jitterAmount, branchChance and maxBranches, is the value the bolt of the
\* next admission uses, and a configured maxBranches of 0 gives a bolt
\* without branches
ConfiguredOptionsUsed ==
    (log.op = "addData" /\ generated # NoGeometry) =>
        /\ \A path \in OptionPaths :
              generated.config[path] = config.lightningBoltConfig[path]
        /\ config.lightningBoltConfig.maxBranches = 0 =>
              generated.bolts[1].roots = <<>>

\* C35, what holds: the options configured with a value other than 0 are the
\* values the bolt of the next admission uses
NonZeroOptionsUsed ==
    (log.op = "addData" /\ generated # NoGeometry) =>
        \A path \in OptionPaths :
            config.lightningBoltConfig[path] # 0 =>
                generated.config[path] = config.lightningBoltConfig[path]

(***************************************************************************)
(* The hidden layer.                                                       *)
(***************************************************************************)

\* C36: update(now) of a hidden layer changes nothing: the bolt map, the
\* marker map and the records are the same after as before, and no effect
\* is updated, expired or removed
HiddenUpdateChangesNothing ==
    [][(log'.op = "update" /\ ~visible) =>
          /\ lightningBoltEffects' = lightningBoltEffects
          /\ markerEffects' = markerEffects
          /\ activeEffects' = activeEffects
          /\ heap' = heap
          /\ ended' = <<>>]_vars

\* a hidden layer has been updated while it tracked a bolt past its duration
\* and a marker past its maximum age
HiddenUpdateChangesNothingWitness ==
    /\ log.op = "update"
    /\ ~visible
    /\ \E i \in DOMAIN lightningBoltEffects :
          LET bolt == heap[lightningBoltEffects[i].ref]
          IN  ~bolt.isTerminated /\ clock - bolt.startTime > LayerBoltDuration
    /\ \E i \in DOMAIN markerEffects :
          LET marker == heap[markerEffects[i].ref]
          IN  ~marker.isTerminated /\ clock - marker.createTime > MarkerMaxAge

(***************************************************************************)
(* The timers of the showcase controller.                                  *)
(***************************************************************************)

\* C37: from the mount onwards the controller never has two createNewStrike
\* timers pending at once
OneTimerPending == Len(showcase.timers) <= 1

\* C37, what holds: the frame callback never schedules a timer while
\* strikePending is set
NoTimerWhilePending ==
    [][(log'.op = "frame" /\ showcase.strikePending) =>
          showcase'.timers = showcase.timers]_vars

(***************************************************************************)
(* The socket of the data stream.                                          *)
(***************************************************************************)

\* C38: after disconnect, the one of the last unsubscribe included, no new
\* WebSocket is constructed until subscribe or connect is called again: the
\* close that disconnect causes schedules no reconnect
NoConnectionAfterDisconnect ==
    [][(dataStream.idle /\ dataStream'.idle) =>
          /\ Len(dataStream'.sockets) = Len(dataStream.sockets)
          /\ ~dataStream'.reconnectTimeout]_vars

\* C38, what holds: disconnect itself constructs no socket and cancels the
\* reconnect that was pending
DisconnectCancelsPending ==
    [][(log'.op = "unsubscribe" /\ dataStream'.idle) =>
          /\ Len(dataStream'.sockets) = Len(dataStream.sockets)
          /\ ~dataStream'.reconnectTimeout]_vars

(***************************************************************************)
(* Deliveries of the data stream.                                          *)
(***************************************************************************)

\* C39: a strike message is delivered exactly once to every callback that is
\* subscribed, however many callbacks are subscribed and in whatever order
\* they subscribed and unsubscribed, and not at all to a callback that has
\* unsubscribed
DeliveredExactlyOnce ==
    \A callback \in {"layer", "other"} :
        Deliveries(dataStream, callback)
            = IF callback \in dataStream.subscribers THEN 1 ELSE 0

\* C39, what holds: a callback that is not subscribed receives nothing, and
\* a callback subscribed alone receives each message once
DeliveredOnceAlone ==
    \A callback \in {"layer", "other"} :
        /\ callback \notin dataStream.subscribers =>
              Deliveries(dataStream, callback) = 0
        /\ dataStream.subscribers = {callback} =>
              Deliveries(dataStream, callback) = 1

====
